---- MODULE Spec2Model ----
(***************************************************************************)
(* A model of the worker-process supervisor (PythonServerManager), of the  *)
(* request functions gated on its readiness, and of the two hosts that     *)
(* embed it (the kernel-web server and the editor extension).              *)
(*                                                                         *)
(* One action of the model is one turn of the Node event loop: a call of   *)
(* the public API, or the delivery of one event (stdout / stderr chunk,    *)
(* 'close', timer, end of the health polling) together with the promise    *)
(* continuations it makes runnable (microtasks run before the next event). *)
(***************************************************************************)
EXTENDS Integers, Sequences, FiniteSets, TLC

\* Length of config.pythonCommands, the ordered list of candidate commands.
NumCmds == 2

\* Bound on the number of worker processes spawned in one behaviour.
MaxProcs == 3

Procs == 1..MaxProcs
Cmds == 1..NumCmds

\* Who may hold the promise of a pending start(): the host's startup code
\* and one further caller of the public API.
Callers == {"host", "api"}

\* The hosts: kernel-web's server.ts (plain Node) and the editor extension.
Hosts == {"web", "ext"}

\* The configurations: <<host, readyWhen.stdout set, readyWhen.endpoint set>>.
\* kernel-web configures the health endpoint, the extension the stdout
\* pattern; ServerConfig also admits both at once.
Configs == { <<"web", FALSE, TRUE>>, <<"ext", TRUE, FALSE>>, <<"ext", TRUE, TRUE>> }

VARIABLES
  host,          \* which host embeds the supervisor
  cfgStdout,     \* config.readyWhen.stdout is configured
  cfgEndpoint,   \* config.readyWhen.endpoint is configured
  process,       \* this.process: 0 is undefined, else the child's number
  isStarting,    \* this.isStarting
  startPromise,  \* this.startPromise is set
  ready,         \* this.ready
  nprocs,        \* number of children spawned so far
  pstate,        \* per child: "none" | "running" | "failed" (spawn error) | "closed"
  killed,        \* per child: ChildProcess.killed
  cmdOf,         \* per child: index of the candidate command that spawned it
  resolved,      \* per child: the `resolved` flag of its tryStartWithCommand call
  attempt,       \* per child: the promise of its tryStartWithCommand call:
                 \*   "none" | "pending" | "ok" (resolve(true)) | "failed" (resolve(false))
  timer,         \* per child: the startup timeout is armed
  poll,          \* per child: waitForEndpoint is "none" | "polling" | "done"
  waiters,       \* callers whose start() promise is pending
  svcReady,      \* kernel-web EmbeddingsService.ready
  client,        \* extension EmbeddingsService.client is set
  hostPhase,     \* "init" | "awaiting" | "up" | "degraded" | "exited" | "crashed"
  out            \* what the last step did that an observer can see

supvars == << host, cfgStdout, cfgEndpoint, process, isStarting, startPromise, ready,
              nprocs, pstate, killed, cmdOf, resolved, attempt, timer, poll,
              waiters, svcReady, client, hostPhase, out >>

cfgvars == << host, cfgStdout, cfgEndpoint >>

\* ---- The block index (BlockParser of kernel-web, BlockManager of the extension)
Files == {"f", "g"}
Ids == {"x", "y"}
Contents == {"c", "d"}

\* Bound on the number of block definitions in one file's text.
MaxDefs == 2

\* The parse procedures in the source: BlockParser.parseFile (kernel-web, no
\* notifications), parseDocument and DocumentParser.parseDocument (extension,
\* over the BlockManager that notifies the event bus).
Revs == {"BlockParser", "parseDocument", "DocumentParser"}

VARIABLES
  rev,           \* which parse procedure maintains the index
  blockMap,      \* id -> block (NoBlock when the id is not a key)
  fileIndex,     \* file -> set of ids (an absent key is the empty set)
  bout           \* what the last step on the index did: the operation, its
                 \* arguments, whether it repeats the step before it, and
                 \* what the listeners saw

ixvars == << rev, blockMap, fileIndex, bout >>

\* The text scanner, the search and the id generator are pure procedures;
\* each is exercised by a specification of its own, on inputs held in the
\* variables below.
Chars == {"[", "]", "@", "a", " "}   \* a text's characters: delimiters, tag mark, one id character, blank
MaxText == 8                         \* bound on the length of a scanned text

VARIABLES
  scanText,      \* the text handed to findBlockMatches
  found,         \* the blocks extracted from it
  scanPc         \* "idle" | "done"

scanvars == << scanText, found, scanPc >>

ScanIdle == scanText = << >> /\ found = << >> /\ scanPc = "idle"

\* Strings whose letters matter (ids, contents, queries) are sequences of
\* characters.
SIds == { <<"a">>, <<"A", "b">>, <<"b">> }
SContents == { << >>, <<"a">>, <<"A", "b">>, <<"b", "a">>, <<"B">> }
Queries == { << >>, <<"a">>, <<"A">>, <<"a", "b">>, <<"b">>, <<"B", "A">> }
MaxBlocks == 2                       \* bound on the number of blocks searched

VARIABLES
  sBlocks,       \* the blocks of the index, in the order the Map iterates (insertion order)
  sQuery,        \* the query of the last search
  hits,          \* its result
  searchPc       \* "idle" | "done"

searchvars == << sBlocks, sQuery, hits, searchPc >>

SearchIdle == sBlocks = << >> /\ sQuery = << >> /\ hits = << >> /\ searchPc = "idle"

GenChars == {"a", "0"}               \* the characters of `chars` that the model draws
IdLen == 6                           \* Array.from({ length: 6 }, ...)
MaxKeys == 1                         \* bound on the number of generated ids put in the index

VARIABLES
  gKeys,         \* the keys of the index
  candidate,     \* generateId's `id`
  retried,       \* the do-while loop went round again
  genPc          \* "idle" | "drawn" | "returned"

genvars == << gKeys, candidate, retried, genPc >>

GenIdle == gKeys = {} /\ candidate = << >> /\ retried = FALSE /\ genPc = "idle"

\* The embedding cache: EmbeddingsService.cache, the index whose blocks are
\* embedded, and the findSimilar calls in flight.
Finders == {"search", "context"}     \* the callers of findSimilar, which may overlap

VARIABLES
  eIndex,        \* the index: id -> content ("" when the id is not a key)
  cache,         \* this.cache: id -> CachedEmbedding (NoEntry when the id is not a key)
  embeddedAs,    \* per id: the content an embedding was last computed and stored for ("" when never)
  calls,         \* per caller: its findSimilar call, if one is in flight
  cout,          \* what the last step on the cache did
  eventListeners,\* this.eventListeners holds the two listeners of the event bus
  servicePhase   \* "up" since construction | "stopped" by stop() | "restarted" by a later start()

embvars == << eIndex, cache, embeddedAs, calls, cout, eventListeners, servicePhase >>

hashContent(content) == [md5 |-> content]
Vec(content) == [vec |-> content]    \* the vector the worker computes for a text
NoVec == Vec("")                     \* a hole of the `embeddings` array
NoEntry == [contentHash |-> hashContent(""), embedding |-> NoVec]
NoCall == [pc |-> "idle", blocks |-> << >>, embeddings |-> << >>,
           uncachedIndices |-> << >>, uncachedContents |-> << >>]
NoCout(name) ==
  [op |-> name, call |-> "", id |-> "", requests |-> << >>, blocks |-> << >>,
   vectors |-> << >>]

EmbIdle ==
  /\ eIndex = [i \in Ids |-> ""]
  /\ cache = [i \in Ids |-> NoEntry]
  /\ embeddedAs = [i \in Ids |-> ""]
  /\ calls = [k \in Finders |-> NoCall]
  /\ cout = NoCout("init")
  /\ eventListeners = TRUE
  /\ servicePhase = "up"

VARIABLES
  candidates,    \* the `blocks` array handed to findSimilar
  rankCache,     \* this.cache before and after the call
  rout           \* the last findSimilar call: its arguments, the vectors sent, its result

rankvars == << candidates, rankCache, rout >>

MaxCands == 3                        \* bound on the length of `blocks`
MaxTopK == 3                         \* bound on topK
CandIds == 1 .. MaxCands             \* ids of the candidate blocks
NoRout == [op |-> "init", topK |-> 0, similarities |-> << >>, hits |-> {},
           vectors |-> << >>, results |-> << >>]

RankIdle ==
  /\ candidates = << >>
  /\ rankCache = [i \in CandIds |-> NoEntry]
  /\ rout = NoRout

VARIABLES
  ctxIndex,      \* the blocks of the index, in insertion order
  gather         \* the gatherContext call: where it is, its options and locals

ctxvars == << ctxIndex, gather >>

CtxIds == {"x", "y", "z"}
NoOptions == [alwaysInclude |-> "missing", currentContent |-> [text |-> FALSE, refs |-> << >>],
              query |-> << >>, maxSemanticResults |-> 1, maxRecentBlocks |-> 1]
NoGather == [pc |-> "idle", options |-> NoOptions, contextParts |-> << >>,
             includedBlockIds |-> {}, allBlocks |-> << >>, changed |-> FALSE,
             failed |-> FALSE]

CtxIdle ==
  /\ ctxIndex = << >>
  /\ gather = NoGather

VARIABLES
  disk,          \* per watched file: whether it exists and the block definitions it holds
  debounceTimer, \* the one timer of setupFileWatching, with the arguments its callback closes over
  isProcessing,  \* setupFileWatching's isProcessing
  parsing,       \* the file whose processFileChange is suspended in `await parseFile` ("" when none)
  unparsed,      \* per file: it was added or changed and has not been read by parseFile since
  wout           \* what the last step of the watcher did

watchvars == << disk, debounceTimer, isProcessing, parsing, unparsed, wout >>

NoFile == [there |-> FALSE, text |-> << >>]
NoTimer == [set |-> FALSE, file |-> "", event |-> ""]
NoWout(name) == [op |-> name, file |-> "", event |-> ""]

WatchIdle ==
  /\ disk = [f \in Files |-> NoFile]
  /\ debounceTimer = NoTimer
  /\ isProcessing = FALSE
  /\ parsing = ""
  /\ unparsed = [f \in Files |-> FALSE]
  /\ wout = NoWout("init")

latevars == << embvars, rankvars, ctxvars, watchvars >>

LateIdle == EmbIdle /\ RankIdle /\ CtxIdle /\ WatchIdle

purevars == << scanvars, searchvars, genvars, latevars >>

PureIdle == ScanIdle /\ SearchIdle /\ GenIdle /\ LateIdle

vars == << supvars, ixvars, purevars >>

NoBlock == [content |-> "", file |-> ""]

Defs == Ids \X Contents
Texts == UNION { [1..n -> Defs] : n \in 0..MaxDefs }

\* A text is the sequence of block definitions <<id, content>> it holds.
NoBout(name) ==
  [op |-> name, file |-> "", id |-> "", text |-> << >>, again |-> FALSE, obs |-> << >>,
   events |-> << >>]

\* The index before anything was parsed.
IxEmpty ==
  /\ blockMap = [i \in Ids |-> NoBlock]
  /\ fileIndex = [f \in Files |-> {}]
  /\ bout = NoBout("init")

\* The index left alone (in the specifications of the other components).
IxIdle == rev = "BlockParser" /\ IxEmpty

NoOut(name) ==
  [op |-> name, ev |-> << >>, net |-> FALSE, settle |-> "none", who |-> {},
   search |-> "none", afterStop |-> FALSE]

\* The mutable state as one record, so that the helpers of the class can be
\* written as functions from state to state and composed as the code calls them.
St(name) ==
  [ process |-> process, isStarting |-> isStarting, startPromise |-> startPromise,
    ready |-> ready, nprocs |-> nprocs, pstate |-> pstate, killed |-> killed,
    cmdOf |-> cmdOf, resolved |-> resolved, attempt |-> attempt,
    timer |-> timer, poll |-> poll,
    waiters |-> waiters, svcReady |-> svcReady, client |-> client,
    hostPhase |-> hostPhase,
    \* out.afterStop: stop() has been called and start() has not been since
    out |-> [NoOut(name) EXCEPT !.afterStop =
               IF name = "stop" THEN TRUE
               ELSE IF name = "start" THEN FALSE ELSE out.afterStop] ]

Commit(s) ==
  /\ process' = s.process
  /\ isStarting' = s.isStarting
  /\ startPromise' = s.startPromise
  /\ ready' = s.ready
  /\ nprocs' = s.nprocs
  /\ pstate' = s.pstate
  /\ killed' = s.killed
  /\ cmdOf' = s.cmdOf
  /\ resolved' = s.resolved
  /\ attempt' = s.attempt
  /\ timer' = s.timer
  /\ poll' = s.poll
  /\ waiters' = s.waiters
  /\ svcReady' = s.svcReady
  /\ client' = s.client
  /\ hostPhase' = s.hostPhase
  /\ out' = s.out
  /\ UNCHANGED cfgvars
  /\ UNCHANGED ixvars
  /\ UNCHANGED purevars

HostAlive == hostPhase \notin {"exited", "crashed"}

\* Everything else happens after the host's startup code has called start().
Running == HostAlive /\ hostPhase # "init"

----------------------------------------------------------------------------
\* EventEmitter.emit for the events that have only ordinary listeners.
\* 'ready' and 'stopped' are listened to by the EmbeddingsService of the host.
Emit(s, e) ==
  LET t == [s EXCEPT !.out.ev = Append(@, e)]
  IN  CASE e = "ready" /\ host = "web" -> [t EXCEPT !.svcReady = TRUE]
        [] e = "ready" /\ host = "ext" -> [t EXCEPT !.client = TRUE]
        [] e = "stopped" /\ host = "web" -> [t EXCEPT !.svcReady = FALSE]
        [] OTHER -> t

\* isRunning(): this.process !== undefined && !this.process.killed
isRunning(s) == s.process # 0 /\ ~s.killed[s.process]

\* isReady(): this.ready && this.isRunning()
isReady(s) == s.ready /\ isRunning(s)

\* setReady()
setReady(s) ==
  IF ~s.ready THEN Emit([s EXCEPT !.ready = TRUE], "ready") ELSE s

\* ChildProcess.kill(): the signal is sent, and `killed` set, only while the
\* child's handle exists (it was spawned and has not exited yet).
kill(s, p) ==
  IF s.pstate[p] = "running" THEN [s EXCEPT !.killed[p] = TRUE] ELSE s

\* A faulty cleanup() that marks the attempt resolved and leaves the child
\* alone; C31 must tell it from cleanup.
cleanup_NoKill(s, p) ==
  IF ~s.resolved[p] THEN [s EXCEPT !.resolved[p] = TRUE] ELSE s

\* cleanup() of tryStartWithCommand
cleanup(s, p) ==
  IF ~s.resolved[p]
    THEN LET t == [s EXCEPT !.resolved[p] = TRUE]
         IN  IF ~t.killed[p] THEN kill(t, p) ELSE t
    ELSE s

clearTimeout(s, p) == [s EXCEPT !.timer[p] = FALSE]

\* An exception nobody catches, thrown inside an event callback: plain Node
\* (kernel-web installs no 'uncaughtException' handler) terminates the
\* process; the extension host logs it and goes on.
Uncaught(s) ==
  IF host = "web" THEN [s EXCEPT !.hostPhase = "crashed"] ELSE s

\* The body of tryStartWithCommand's promise executor: spawn, arm the timer,
\* register the handlers, start the health polling.  When spawn fails (ok is
\* FALSE) the child emits 'error' on the next tick; the handler calls
\* this.emit("error", error), and since no listener for 'error' is ever
\* registered on the manager, emit throws: the handler ends there, before
\* clearTimeout / cleanup / resolve.
tryStartWithCommand(s, cmd, ok) ==
  LET p == s.nprocs + 1
      t1 == [s EXCEPT !.nprocs = p,
                      !.pstate[p] = IF ok THEN "running" ELSE "failed",
                      !.cmdOf[p] = cmd,
                      !.resolved[p] = FALSE,
                      !.attempt[p] = "pending",
                      !.timer[p] = TRUE]
      t2 == IF cfgEndpoint
              THEN [t1 EXCEPT !.process = p, !.poll[p] = "polling"]
              ELSE t1
  IN  IF ok THEN t2 ELSE Uncaught(t2)

\* What the host's startup code does when its start() promise settles.
HostReact(s, ok) ==
  IF "host" \in s.waiters
    THEN [s EXCEPT !.hostPhase =
            IF host = "web" THEN (IF ok THEN "up" ELSE "exited")
                            ELSE (IF ok THEN "up" ELSE "degraded")]
    ELSE s

\* The end of start(): emit 'started' on success, the finally block, and the
\* settling of every caller that holds the pending promise.
settle(s, ok) ==
  LET t1 == IF ok THEN Emit(s, "started") ELSE s
      t2 == [t1 EXCEPT !.isStarting = FALSE, !.startPromise = FALSE,
                       !.out.settle = IF ok THEN "ok" ELSE "err",
                       !.out.who = s.waiters]
      t3 == HostReact(t2, ok)
  IN  [t3 EXCEPT !.waiters = {}]

\* A faulty doStart loop that goes on to the next candidate even after a
\* successful attempt; C5 must tell it from doStartNext.
doStartNext_KeepGoing(s, p, ok, nextOk) ==
  IF s.cmdOf[p] < NumCmds
    THEN tryStartWithCommand(s, s.cmdOf[p] + 1, nextOk)
    ELSE settle(s, ok)

\* doStart's loop, resumed when the attempt of child p settles with `ok`:
\* return on success, else try the next candidate, else throw.
doStartNext(s, p, ok, nextOk) ==
  IF ok THEN settle(s, TRUE)
  ELSE IF s.cmdOf[p] < NumCmds
    THEN tryStartWithCommand(s, s.cmdOf[p] + 1, nextOk)
    ELSE settle(s, FALSE)

\* resolve(ok) of the promise of child p's attempt: the first call settles it
\* and resumes doStart; a later call has no effect.
resolveAttempt(s, p, ok, nextOk) ==
  IF s.attempt[p] # "pending"
    THEN s
    ELSE doStartNext([s EXCEPT !.attempt[p] = IF ok THEN "ok" ELSE "failed"],
                     p, ok, nextOk)

\* doStart(): the script check, then the first candidate.
doStart(s, scriptOk, ok) ==
  IF ~scriptOk THEN settle(s, FALSE) ELSE tryStartWithCommand(s, 1, ok)

\* A faulty start() without the isStarting/startPromise early return; C1 must
\* tell it from start.
start_NoJoin(s, c, scriptOk, ok) ==
  IF s.process # 0 /\ ~s.killed[s.process]
    THEN [s EXCEPT !.out.settle = "ok", !.out.who = {c}]
    ELSE doStart([s EXCEPT !.isStarting = TRUE, !.startPromise = TRUE,
                           !.waiters = @ \cup {c}], scriptOk, ok)

\* start() called by caller c.
start(s, c, scriptOk, ok) ==
  IF s.isStarting /\ s.startPromise
    THEN [s EXCEPT !.waiters = @ \cup {c}]
  ELSE IF s.process # 0 /\ ~s.killed[s.process]
    THEN [s EXCEPT !.out.settle = "ok", !.out.who = {c}]
  ELSE doStart([s EXCEPT !.isStarting = TRUE, !.startPromise = TRUE,
                         !.waiters = @ \cup {c}], scriptOk, ok)

\* stop()
stop(s) ==
  IF s.process # 0 /\ ~s.killed[s.process]
    THEN Emit([kill(s, s.process) EXCEPT !.process = 0, !.ready = FALSE], "stopped")
    ELSE s

\* fetch(path, options): the request goes to the network only past both checks.
fetch(s) ==
  IF ~isRunning(s) THEN s
  ELSE IF ~s.ready THEN s
  ELSE [s EXCEPT !.out.net = TRUE]

\* PythonClient.request
request(s) ==
  IF ~isReady(s) THEN s ELSE fetch(s)

\* EmbeddingsService.isReady() of the host
svcIsReady(s) ==
  IF host = "web" THEN s.svcReady /\ isReady(s)
                  ELSE isReady(s) /\ s.client

\* EmbeddingsService.embed: ensureReady, then the request function of the host
\* (kernel-web: serverManager.fetch; extension: client.embed -> request).
embed(s) ==
  IF ~svcIsReady(s) THEN s
  ELSE IF host = "web" THEN fetch(s) ELSE request(s)

\* Block search as the host offers it.  kernel-web (POST /api/blocks/search):
\* semantic when the service is ready, else the substring search of the block
\* parser.  Extension (searchBlocksCommand): an error message when the service
\* is not ready, else semantic.  The semantic path is findSimilar, gated and
\* routed like embed.
search(s) ==
  IF svcIsReady(s)
    THEN [embed(s) EXCEPT !.out.search = "semantic"]
    ELSE [s EXCEPT !.out.search = IF host = "web" THEN "text" ELSE "error"]

\* The stdout 'data' handler; `matches` is readyWhen.stdout.test(output).
onStdout(s, p, matches, nextOk) ==
  IF ~s.resolved[p] /\ cfgStdout /\ matches
    THEN resolveAttempt(
           setReady([clearTimeout(s, p) EXCEPT !.resolved[p] = TRUE,
                                               !.process = p]),
           p, TRUE, nextOk)
    ELSE s

\* The stderr 'data' handler; `fatal` is the ModuleNotFoundError/Traceback test.
onStderr(s, p, fatal, nextOk) ==
  IF fatal
    THEN resolveAttempt(cleanup(clearTimeout(s, p), p), p, FALSE, nextOk)
    ELSE s

\* A faulty 'close' handler that leaves this.ready alone; C4 must tell it
\* from onClose.
onClose_KeepReady(s, p, nextOk) ==
  resolveAttempt(cleanup(clearTimeout(s, p), p), p, FALSE, nextOk)

\* The 'close' handler.
onClose(s, p, nextOk) ==
  resolveAttempt(cleanup(clearTimeout([s EXCEPT !.ready = FALSE], p), p),
                 p, FALSE, nextOk)

\* The startup timer's callback.
onTimeout(s, p, nextOk) ==
  resolveAttempt(cleanup(s, p), p, FALSE, nextOk)

\* waitForEndpoint().then(...)
onEndpointReady(s, p, nextOk) ==
  IF ~s.resolved[p]
    THEN resolveAttempt(setReady([clearTimeout(s, p) EXCEPT !.resolved[p] = TRUE]),
                        p, TRUE, nextOk)
    ELSE s

\* waitForEndpoint().catch(...)
onEndpointFailed(s, p, nextOk) ==
  resolveAttempt(cleanup(clearTimeout(s, p), p), p, FALSE, nextOk)

----------------------------------------------------------------------------
SupInit ==
  /\ process = 0
  /\ isStarting = FALSE
  /\ startPromise = FALSE
  /\ ready = FALSE
  /\ nprocs = 0
  /\ pstate = [p \in Procs |-> "none"]
  /\ killed = [p \in Procs |-> FALSE]
  /\ cmdOf = [p \in Procs |-> 0]
  /\ resolved = [p \in Procs |-> FALSE]
  /\ attempt = [p \in Procs |-> "none"]
  /\ timer = [p \in Procs |-> FALSE]
  /\ poll = [p \in Procs |-> "none"]
  /\ waiters = {}
  /\ svcReady = FALSE
  /\ client = FALSE
  /\ hostPhase = "init"
  /\ out = NoOut("init")

Init ==
  /\ \E c \in Configs : host = c[1] /\ cfgStdout = c[2] /\ cfgEndpoint = c[3]
  /\ SupInit
  /\ IxIdle
  /\ PureIdle

\* The outcome of the spawn of the next candidate, drawn only when the settling
\* of child p's attempt leads to one.
NextOks(p) ==
  IF attempt[p] = "pending" /\ cmdOf[p] < NumCmds THEN BOOLEAN ELSE {TRUE}

\* A start() that gets past its two early returns may spawn up to NumCmds children.
CanSpawn == nprocs + NumCmds <= MaxProcs
WouldSpawn == ~(isStarting /\ startPromise) /\ ~(process # 0 /\ ~killed[process])

\* The host's startup: startServer (kernel-web) / startEmbeddingsServerAsync
\* (extension) awaits start().
HostStartup ==
  /\ hostPhase = "init"
  /\ WouldSpawn => CanSpawn
  /\ \E scriptOk, ok \in BOOLEAN :
       LET s == start([St("start") EXCEPT !.hostPhase = "awaiting"],
                      "host", scriptOk, ok)
       IN  Commit(s)

\* start() called by another caller of the public API.
ApiStart ==
  /\ Running
  /\ "api" \notin waiters
  /\ WouldSpawn => CanSpawn
  /\ \E scriptOk, ok \in BOOLEAN :
       Commit(start(St("start"), "api", scriptOk, ok))

\* stop() called through the public API (the extension reaches it through
\* EmbeddingsService.stop, which also drops its client).
ApiStop ==
  /\ Running
  /\ LET s == stop(St("stop"))
     IN  Commit(IF host = "ext" THEN [s EXCEPT !.client = FALSE] ELSE s)

Fetch ==
  /\ Running
  /\ Commit(fetch(St("request")))

Embed ==
  /\ Running
  /\ Commit(embed(St("request")))

\* kernel-web listens (app.listen) only after start() has resolved.
Search ==
  /\ IF host = "web" THEN hostPhase = "up" ELSE Running
  /\ Commit(search(St("search")))

Stdout(p) ==
  /\ Running
  /\ pstate[p] = "running"
  /\ \E matches \in BOOLEAN, nextOk \in NextOks(p) :
       Commit(onStdout(St("event"), p, matches, nextOk))

Stderr(p) ==
  /\ Running
  /\ pstate[p] = "running"
  /\ \E fatal \in BOOLEAN, nextOk \in NextOks(p) :
       Commit(onStderr(St("event"), p, fatal, nextOk))

\* The child has terminated (by itself, or on the signal it was sent) and its
\* 'close' event is delivered; after a spawn error 'close' may or may not come.
Close(p) ==
  /\ Running
  /\ pstate[p] \in {"running", "failed"}
  /\ \E nextOk \in NextOks(p) :
       Commit(onClose([St("event") EXCEPT !.pstate[p] = "closed"], p, nextOk))

Timeout(p) ==
  /\ Running
  /\ timer[p]
  /\ \E nextOk \in NextOks(p) :
       Commit(onTimeout([St("event") EXCEPT !.timer[p] = FALSE], p, nextOk))

\* The health polling ends: the endpoint answered and passed the check (some
\* worker must be alive to answer), or maxStartupTime elapsed.
EndpointReady(p) ==
  /\ Running
  /\ poll[p] = "polling"
  /\ \E q \in Procs : pstate[q] = "running"
  /\ \E nextOk \in NextOks(p) :
       Commit(onEndpointReady([St("event") EXCEPT !.poll[p] = "done"], p, nextOk))

EndpointFailed(p) ==
  /\ Running
  /\ poll[p] = "polling"
  /\ \E nextOk \in NextOks(p) :
       Commit(onEndpointFailed([St("event") EXCEPT !.poll[p] = "done"], p, nextOk))

Next ==
  \/ HostStartup
  \/ ApiStart
  \/ ApiStop
  \/ Fetch
  \/ Embed
  \/ Search
  \/ \E p \in Procs : Stdout(p)
  \/ \E p \in Procs : Stderr(p)
  \/ \E p \in Procs : Close(p)
  \/ \E p \in Procs : Timeout(p)
  \/ \E p \in Procs : EndpointReady(p)
  \/ \E p \in Procs : EndpointFailed(p)

Spec == Init /\ [][Next]_vars

\* The same system with the one scheduling guarantee the event loop gives the
\* supervisor: an armed startup timer (setTimeout) that is not cleared fires.
TimersFire == \A p \in Procs : WF_vars(Timeout(p))

LiveSpec == Init /\ [][Next]_vars /\ TimersFire

TypeOK ==
  /\ host \in Hosts
  /\ process \in 0..MaxProcs
  /\ nprocs \in 0..MaxProcs
  /\ waiters \subseteq Callers

----------------------------------------------------------------------------
\* The block index.  The text a parse reads from a file is modelled by the
\* sequence of block definitions that findBlockMatches extracts from it (the
\* extraction itself is modelled character by character further down).  The index is handled as
\* a record [blockMap, fileIndex, obs]; obs collects what the listeners of the
\* event bus see: the forward map at each notification.

Ix == [blockMap |-> blockMap, fileIndex |-> fileIndex, obs |-> << >>, events |-> << >>]

\* BlockManager.set / delete / clear end with eventBus.emit, and the bus
\* (vscode.EventEmitter.fire) runs its listeners before it returns;
\* BlockParser has no notifications.
notify(ix, type, id) ==
  IF rev = "BlockParser"
    THEN ix
    ELSE [ix EXCEPT !.obs = Append(@, ix.blockMap),
                    !.events = Append(@, [type |-> type, id |-> id])]

\* A faulty setBlock that keeps the block an id already has; C16 must tell it
\* from setBlock.
setBlock_KeepFirst(ix, id, block) ==
  IF ix.blockMap[id] # NoBlock
    THEN ix
    ELSE notify([ix EXCEPT !.blockMap[id] = block,
                           !.fileIndex[block.file] = @ \cup {id}],
                "block:added", id)

\* A faulty set that announces every block as new; C40 must tell it from
\* setBlock.
setBlock_AlwaysAdded(ix, id, block) ==
  notify([ix EXCEPT !.blockMap[id] = block,
                    !.fileIndex[block.file] = @ \cup {id}],
         "block:added", id)

\* BlockParser.setBlock / BlockManager.set
setBlock(ix, id, block) ==
  LET isNew == ix.blockMap[id] = NoBlock
  IN  notify([ix EXCEPT !.blockMap[id] = block,
                        !.fileIndex[block.file] = @ \cup {id}],
             IF isNew THEN "block:added" ELSE "block:updated", id)

\* BlockParser.deleteBlock / BlockManager.delete
deleteBlock(ix, id) ==
  LET block == ix.blockMap[id]
  IN  IF block = NoBlock
        THEN ix
        ELSE notify([ix EXCEPT !.blockMap[id] = NoBlock,
                               !.fileIndex[block.file] = @ \ {id}],
                    "block:removed", id)

\* getBlockIdsFromFile
getBlockIdsFromFile(ix, f) == ix.fileIndex[f]

\* for (const id of ids) delete(id).  Deletions of different ids commute, so
\* the order in which the set is walked does not show in the result.
RECURSIVE deleteEach(_, _)
deleteEach(ix, ids) ==
  IF ids = {}
    THEN ix
    ELSE LET id == CHOOSE i \in ids : TRUE
         IN  deleteEach(deleteBlock(ix, id), ids \ {id})

\* BlockManager.removeBlocksFromFile
removeBlocksFromFile(ix, f) == deleteEach(ix, ix.fileIndex[f])

\* createBlockFromMatch
createBlockFromMatch(match, f) == [content |-> match[2], file |-> f]

\* for (const match of matches) set(match.id, block), from the k-th match on.
RECURSIVE setEach(_, _, _, _)
setEach(ix, f, matches, k) ==
  IF k > Len(matches)
    THEN ix
    ELSE setEach(setBlock(ix, matches[k][1], createBlockFromMatch(matches[k], f)),
                 f, matches, k + 1)

IdsOf(matches) == { matches[k][1] : k \in DOMAIN matches }

\* A faulty parseFile that removes the file's existing ids after inserting
\* the current blocks; C14 must tell it from parseFile.
parseFile_RemoveLast(ix, f, matches) ==
  deleteEach(setEach(ix, f, matches, 1), getBlockIdsFromFile(ix, f))

\* BlockParser.parseFile, after the file was read and scanned.
parseFile(ix, f, matches) ==
  setEach(deleteEach(ix, getBlockIdsFromFile(ix, f)), f, matches, 1)

\* parseDocument (the function)
parseDocument(ix, f, matches) ==
  setEach(removeBlocksFromFile(ix, f), f, matches, 1)

\* A faulty DocumentParser.parseDocument that removes all the blocks of the
\* file before it sets the current ones; C33 must tell it from the real one.
DocumentParser_parseDocument_RemoveAll(ix, f, matches) ==
  setEach(removeBlocksFromFile(ix, f), f, matches, 1)

\* DocumentParser.parseDocument: set the current blocks, then delete the
\* existing ids that were not seen in this parse.
DocumentParser_parseDocument(ix, f, matches) ==
  LET existingBlockIds == getBlockIdsFromFile(ix, f)
      currentBlockIds == IdsOf(matches)
  IN  deleteEach(setEach(ix, f, matches, 1), existingBlockIds \ currentBlockIds)

\* The parse procedure of the revision at hand.
parse(ix, f, matches) ==
  CASE rev = "BlockParser" -> parseFile(ix, f, matches)
    [] rev = "parseDocument" -> parseDocument(ix, f, matches)
    [] rev = "DocumentParser" -> DocumentParser_parseDocument(ix, f, matches)

\* blockMap.clear(); fileIndex.clear()
clear(ix) ==
  notify([ix EXCEPT !.blockMap = [i \in Ids |-> NoBlock],
                    !.fileIndex = [f \in Files |-> {}]],
         "blocks:cleared", "")

IxCommit(ix, name, f, id, text) ==
  /\ blockMap' = ix.blockMap
  /\ fileIndex' = ix.fileIndex
  /\ bout' = [op |-> name, file |-> f, id |-> id, text |-> text,
               again |-> (bout.op = name /\ bout.file = f /\ bout.text = text),
               obs |-> ix.obs, events |-> ix.events]
  /\ UNCHANGED rev
  /\ UNCHANGED supvars
  /\ UNCHANGED purevars

BlockInit ==
  /\ \E c \in {<<"web", FALSE, TRUE>>} :
       host = c[1] /\ cfgStdout = c[2] /\ cfgEndpoint = c[3]
  /\ SupInit
  /\ rev \in Revs
  /\ IxEmpty
  /\ PureIdle

\* parseFile(f) / parseDocument(document) by the file watcher, the document
\* change listener, or one turn of the loop of parseAllFiles; text is what
\* the file holds when it is read.
ParseFile(f) ==
  \E text \in Texts : IxCommit(parse(Ix, f, text), "parse", f, "", text)

\* The start of parseAllFiles (kernel-web) / BlockManager.clear (extension).
Clear == IxCommit(clear(Ix), "clear", "", "", << >>)

\* BlockManager.delete, public in the extension.
Delete(id) ==
  /\ rev # "BlockParser"
  /\ IxCommit(deleteBlock(Ix, id), "delete", "", id, << >>)

\* POST /api/blocks of kernel-web: FileStorage.createBlock writes the file
\* (`[content] @id`, replacing what the file held), then the file is parsed.
SaveBlock(id, content, f) ==
  /\ rev = "BlockParser"
  /\ LET text == << <<id, content>> >>
     IN  IxCommit(parseFile(Ix, f, text), "save", f, id, text)

BlockNext ==
  \/ \E f \in Files : ParseFile(f)
  \/ Clear
  \/ \E id \in Ids : Delete(id)
  \/ \E id \in Ids, content \in Contents, f \in Files : SaveBlock(id, content, f)

BlockSpec == BlockInit /\ [][BlockNext]_vars

----------------------------------------------------------------------------
\* The text scanner.  Positions are those of the code: the first character
\* of a text is at position 0, and -1 stands for "not found".

At(text, pos) == text[pos + 1]

\* text.substring(from, to)
substring(text, from, to) == SubSeq(text, from + 1, to)

\* The regular expression /\]\s*@([a-zA-Z0-9_]+)/ tried at position i:
\* a closing delimiter, blanks, the tag mark, one id character or more.
RECURSIVE skipBlanks(_, _)
skipBlanks(text, j) ==
  IF j < Len(text) /\ At(text, j) = " " THEN skipBlanks(text, j + 1) ELSE j

RECURSIVE idEnd(_, _)
idEnd(text, j) ==
  IF j < Len(text) /\ At(text, j) = "a" THEN idEnd(text, j + 1) ELSE j

matchesAt(text, i) ==
  /\ At(text, i) = "]"
  /\ LET j == skipBlanks(text, i + 1)
     IN  /\ j + 1 < Len(text)
         /\ At(text, j) = "@"
         /\ At(text, j + 1) = "a"

\* regex.exec(text) with the global flag: the leftmost match at or after
\* lastIndex, or -1 for null.
exec(text, lastIndex) ==
  LET at == { i \in lastIndex..(Len(text) - 1) : matchesAt(text, i) }
  IN  IF at = {} THEN -1 ELSE CHOOSE i \in at : \A k \in at : i <= k

\* A faulty findBlockStart that takes the nearest opening delimiter and does
\* not count nesting; C15 must tell it from findBlockStart.
findBlockStart_Nearest(text, endPos) ==
  LET opens == { s \in 0..(endPos - 1) : At(text, s) = "[" }
  IN  IF opens = {} THEN -1 ELSE CHOOSE s \in opens : \A k \in opens : k <= s

\* The loop of findBlockStart.
RECURSIVE scanBack(_, _, _)
scanBack(text, pos, bracketCount) ==
  IF pos >= 0 /\ bracketCount > 0
    THEN scanBack(text, pos - 1,
                  CASE At(text, pos) = "]" -> bracketCount + 1
                    [] At(text, pos) = "[" -> bracketCount - 1
                    [] OTHER -> bracketCount)
    ELSE IF bracketCount = 0 THEN pos + 1 ELSE -1

\* findBlockStart
findBlockStart(text, endPos) == scanBack(text, endPos - 1, 1)

\* findBlockMatches, from lastIndex on.
RECURSIVE findBlockMatches(_, _)
findBlockMatches(text, lastIndex) ==
  LET endPos == exec(text, lastIndex)
  IN  IF endPos = -1
        THEN << >>
        ELSE LET j == skipBlanks(text, endPos + 1)
                 e == idEnd(text, j + 1)
                 startPos == findBlockStart(text, endPos)
                 here == IF startPos # -1
                           THEN << [id |-> substring(text, j + 1, e),
                                    startPos |-> startPos,
                                    endPos |-> endPos,
                                    matchLength |-> e - endPos] >>
                           ELSE << >>
             IN  here \o findBlockMatches(text, e)

\* String.prototype.trim
RECURSIVE trimStart(_)
trimStart(s) == IF s # << >> /\ Head(s) = " " THEN trimStart(Tail(s)) ELSE s

RECURSIVE trimEnd(_)
trimEnd(s) ==
  IF s # << >> /\ s[Len(s)] = " " THEN trimEnd(SubSeq(s, 1, Len(s) - 1)) ELSE s

trim(s) == trimEnd(trimStart(s))

\* The content createBlockFromMatch gives the block of a match.
contentOf(text, match) == trim(substring(text, match.startPos + 1, match.endPos))

ScanInit ==
  /\ \E c \in {<<"web", FALSE, TRUE>>} :
       host = c[1] /\ cfgStdout = c[2] /\ cfgEndpoint = c[3]
  /\ SupInit
  /\ IxIdle
  /\ ScanIdle
  /\ SearchIdle
  /\ GenIdle
  /\ LateIdle

\* The scan that opens parseFile / parseDocument: the matches of the text and
\* the content of the block of each.
Scan ==
  /\ scanPc = "idle"
  /\ LET matches == findBlockMatches(scanText, 0)
     IN  found' = [k \in DOMAIN matches |->
                     [id |-> matches[k].id,
                      startPos |-> matches[k].startPos,
                      endPos |-> matches[k].endPos,
                      content |-> contentOf(scanText, matches[k])]]
  /\ scanPc' = "done"
  /\ UNCHANGED << scanText, supvars, ixvars, searchvars, genvars, latevars >>

\* The text grows by one character before it is scanned.
Type(ch) ==
  /\ scanPc = "idle"
  /\ Len(scanText) < MaxText
  /\ scanText' = Append(scanText, ch)
  /\ UNCHANGED << found, scanPc, supvars, ixvars, searchvars, genvars, latevars >>

ScanNext ==
  \/ \E ch \in Chars : Type(ch)
  \/ Scan

ScanSpec == ScanInit /\ [][ScanNext]_vars

----------------------------------------------------------------------------
\* Search over the index.

\* String.prototype.toLowerCase
toLowerCase(s) ==
  [k \in DOMAIN s |-> CASE s[k] = "A" -> "a" [] s[k] = "B" -> "b" [] OTHER -> s[k]]

\* String.prototype.includes
includes(s, sub) ==
  \E k \in 0..(Len(s) - Len(sub)) : SubSeq(s, k + 1, k + Len(sub)) = sub

\* A faulty searchBlocks that does not lower the query; C18 must tell it
\* from searchBlocks.
searchBlocks_RawQuery(blocks, query) ==
  LET keep(block) == \/ includes(toLowerCase(block.content), query)
                     \/ includes(toLowerCase(block.id), query)
  IN  SelectSeq(blocks, keep)

\* BlockParser.searchBlocks over getAllBlocks()
searchBlocks(blocks, query) ==
  LET lowerQuery == toLowerCase(query)
      keep(block) == \/ includes(toLowerCase(block.content), lowerQuery)
                     \/ includes(toLowerCase(block.id), lowerQuery)
  IN  SelectSeq(blocks, keep)

\* Map.set: a new key goes last, an existing key keeps its place.
mapSet(blocks, id, content) ==
  IF \E k \in DOMAIN blocks : blocks[k].id = id
    THEN [k \in DOMAIN blocks |->
            IF blocks[k].id = id THEN [id |-> id, content |-> content] ELSE blocks[k]]
    ELSE Append(blocks, [id |-> id, content |-> content])

SearchInit ==
  /\ \E c \in {<<"web", FALSE, TRUE>>} :
       host = c[1] /\ cfgStdout = c[2] /\ cfgEndpoint = c[3]
  /\ SupInit
  /\ IxIdle
  /\ ScanIdle
  /\ SearchIdle
  /\ GenIdle
  /\ LateIdle

\* setBlock on the searched index.
Put(id, content) ==
  /\ Len(mapSet(sBlocks, id, content)) <= MaxBlocks
  /\ sBlocks' = mapSet(sBlocks, id, content)
  /\ sQuery' = << >> /\ hits' = << >> /\ searchPc' = "idle"
  /\ UNCHANGED << supvars, ixvars, scanvars, genvars, latevars >>

\* searchBlocks(query)
SearchBlocks(q) ==
  /\ sQuery' = q
  /\ hits' = searchBlocks(sBlocks, q)
  /\ searchPc' = "done"
  /\ UNCHANGED << sBlocks, supvars, ixvars, scanvars, genvars, latevars >>

SearchNext ==
  \/ \E id \in SIds, content \in SContents : Put(id, content)
  \/ \E q \in Queries : SearchBlocks(q)

SearchSpec == SearchInit /\ [][SearchNext]_vars

----------------------------------------------------------------------------
\* Id generation.

\* this.blockMap.has(id), never true in a faulty variant that C19 must tell
\* from it.
has_Never(keys, id) == FALSE

has(keys, id) == id \in keys

GenInit ==
  /\ \E c \in {<<"web", FALSE, TRUE>>} :
       host = c[1] /\ cfgStdout = c[2] /\ cfgEndpoint = c[3]
  /\ SupInit
  /\ IxIdle
  /\ ScanIdle
  /\ SearchIdle
  /\ GenIdle
  /\ LateIdle

\* One turn of the do-while loop of generateId: IdLen characters are drawn.
\* The loop is entered by a call and re-entered while the index has the id.
Draw ==
  /\ \/ genPc = "idle"
     \/ genPc = "drawn" /\ has(gKeys, candidate)
  /\ candidate' \in [1..IdLen -> GenChars]
  /\ retried' = (genPc = "drawn")
  /\ genPc' = "drawn"
  /\ UNCHANGED << gKeys, supvars, ixvars, scanvars, searchvars, latevars >>

\* The loop ends and generateId returns.
Return ==
  /\ genPc = "drawn"
  /\ ~has(gKeys, candidate)
  /\ genPc' = "returned"
  /\ UNCHANGED << gKeys, candidate, retried, supvars, ixvars, scanvars, searchvars, latevars >>

\* The caller stores a block under the id it was given.
Insert ==
  /\ genPc = "returned"
  /\ Cardinality(gKeys) < MaxKeys
  /\ gKeys' = gKeys \cup {candidate}
  /\ candidate' = << >> /\ retried' = FALSE /\ genPc' = "idle"
  /\ UNCHANGED << supvars, ixvars, scanvars, searchvars, latevars >>

\* The caller does not store a block under it.
Discard ==
  /\ genPc = "returned"
  /\ candidate' = << >> /\ retried' = FALSE /\ genPc' = "idle"
  /\ UNCHANGED << gKeys, supvars, ixvars, scanvars, searchvars, latevars >>

GenNext == Draw \/ Return \/ Insert \/ Discard

GenSpec == GenInit /\ [][GenNext]_vars

----------------------------------------------------------------------------
\* The embedding cache.

Scores == {1, 2}                     \* the similarity scores the worker may return

\* The worker's answer to POST /embed: one vector per text, in order.
embedResponse(texts) == [k \in DOMAIN texts |-> Vec(texts[k])]

\* A faulty validity test that accepts any entry of the id; C21 must tell it
\* from cacheHit.
cacheHit_AnyEntry(cached, contentHash) == cached # NoEntry

\* cached && cached.contentHash === contentHash
cacheHit(cached, contentHash) ==
  cached # NoEntry /\ cached.contentHash = contentHash

\* A faulty first loop that queues every block, cached or not; C22 must tell
\* it from checkCache.
RECURSIVE checkCache_NoHits(_, _, _, _)
checkCache_NoHits(ch, blocks, i, acc) ==
  IF i > Len(blocks)
    THEN acc
    ELSE checkCache_NoHits(ch, blocks, i + 1,
           [acc EXCEPT !.uncachedIndices = Append(@, i),
                       !.uncachedContents = Append(@, blocks[i].content)])

\* The first loop of getBlockEmbeddings, from block i on (blocks are counted
\* from 1 here): hits fill their place of `embeddings`, misses are queued.
RECURSIVE checkCache(_, _, _, _)
checkCache(ch, blocks, i, acc) ==
  IF i > Len(blocks)
    THEN acc
    ELSE LET block == blocks[i]
             contentHash == hashContent(block.content)
             cached == ch[block.id]
         IN  IF cacheHit(cached, contentHash)
               THEN checkCache(ch, blocks, i + 1,
                      [acc EXCEPT !.embeddings[i] = cached.embedding])
               ELSE checkCache(ch, blocks, i + 1,
                      [acc EXCEPT !.uncachedIndices = Append(@, i),
                                  !.uncachedContents = Append(@, block.content)])

\* A faulty second loop that stores each new vector under the block at the
\* vector's own position; C25 must tell it from storeNew.
RECURSIVE storeNew_ByPosition(_, _, _)
storeNew_ByPosition(s, newEmbeddings, i) ==
  IF i > Len(s.call.uncachedIndices)
    THEN s
    ELSE LET block == s.call.blocks[i]
             embedding == newEmbeddings[i]
         IN  storeNew_ByPosition(
               [s EXCEPT !.cache[block.id] =
                           [contentHash |-> hashContent(block.content),
                            embedding |-> embedding],
                         !.embeddedAs[block.id] = newEmbeddings[i].vec,
                         !.call.embeddings[s.call.uncachedIndices[i]] = embedding],
               newEmbeddings, i + 1)

\* The second loop of getBlockEmbeddings, from the i-th miss on: the new
\* vectors are cached and put in their places.  s is [cache, embeddedAs, call].
RECURSIVE storeNew(_, _, _)
storeNew(s, newEmbeddings, i) ==
  IF i > Len(s.call.uncachedIndices)
    THEN s
    ELSE LET index == s.call.uncachedIndices[i]
             block == s.call.blocks[index]
             embedding == newEmbeddings[i]
         IN  storeNew(
               [s EXCEPT !.cache[block.id] =
                           [contentHash |-> hashContent(block.content),
                            embedding |-> embedding],
                         !.embeddedAs[block.id] = newEmbeddings[i].vec,
                         !.call.embeddings[index] = embedding],
               newEmbeddings, i + 1)

\* Array.prototype.sort with (a, b) => b.score - a.score: a stable sort, so
\* an element goes behind the elements that do not score less.
insertByScore(sorted, r) ==
  LET k == Cardinality({ j \in DOMAIN sorted : sorted[j].score >= r.score })
  IN  SubSeq(sorted, 1, k) \o << r >> \o SubSeq(sorted, k + 1, Len(sorted))

RECURSIVE sortByScore(_, _, _)
sortByScore(results, i, sorted) ==
  IF i > Len(results)
    THEN sorted
    ELSE sortByScore(results, i + 1, insertByScore(sorted, results[i]))

\* results.slice(0, topK), topK >= 0
slice(results, topK) ==
  SubSeq(results, 1, IF topK < Len(results) THEN topK ELSE Len(results))

\* A faulty zip that numbers the results after sorting them; C24 must tell
\* it from zipScores.
zipScores_Renumbered(blocks, similarities) ==
  LET zipped == [i \in DOMAIN similarities |->
                   [chunk |-> blocks[i].content, score |-> similarities[i], index |-> i - 1]]
      sorted == sortByScore(zipped, 1, << >>)
  IN  [i \in DOMAIN sorted |-> [sorted[i] EXCEPT !.index = i - 1]]

\* similarities.map((score, i) => ({ chunk: blocks[i].content, score, index: i }))
zipScores(blocks, similarities) ==
  [i \in DOMAIN similarities |->
     [chunk |-> blocks[i].content, score |-> similarities[i], index |-> i - 1]]

\* A faulty ranking that does not truncate; C23 must tell it from rank.
rank_NoSlice(blocks, similarities, topK) ==
  sortByScore(zipScores(blocks, similarities), 1, << >>)

\* The end of findSimilar: zip, sort, slice.
rank(blocks, similarities, topK) ==
  slice(sortByScore(zipScores(blocks, similarities), 1, << >>), topK)

\* The blocks a caller hands to findSimilar: blocks of the index, in the
\* index's order, each a fresh { id, content } object.
BlocksOf(ids) ==
  LET order == << "x", "y" >>
      keep(id) == id \in ids
      kept == SelectSeq(order, keep)
  IN  [k \in DOMAIN kept |-> [id |-> kept[k], content |-> eIndex[kept[k]]]]

CacheInit ==
  /\ \E c \in {<<"web", FALSE, TRUE>>, <<"ext", TRUE, FALSE>>} :
       host = c[1] /\ cfgStdout = c[2] /\ cfgEndpoint = c[3]
  /\ SupInit
  /\ IxIdle
  /\ ScanIdle
  /\ SearchIdle
  /\ GenIdle
  /\ LateIdle

EmbFrame ==
  UNCHANGED << supvars, ixvars, scanvars, searchvars, genvars, rankvars, ctxvars, watchvars,
               eventListeners, servicePhase >>

\* setBlock / BlockManager.set: the index gets or changes a block.  Nothing
\* is done to the cache.
SetBlock(id, content) ==
  /\ eIndex' = [eIndex EXCEPT ![id] = content]
  /\ cout' = [NoCout("set") EXCEPT !.id = id]
  /\ UNCHANGED << cache, embeddedAs, calls >>
  /\ EmbFrame

\* kernel-web, processFileChange for the file of one block: the cache
\* entries of the file's blocks are cleared, then the file is parsed
\* (content "" when the file no longer defines the block).
WatchedChange(id, content) ==
  /\ host = "web"
  /\ cache' = IF eIndex[id] # "" THEN [cache EXCEPT ![id] = NoEntry] ELSE cache
  /\ eIndex' = [eIndex EXCEPT ![id] = content]
  /\ cout' = [NoCout(IF content = "" /\ eIndex[id] # "" THEN "removed" ELSE "changed")
                EXCEPT !.id = id]
  /\ UNCHANGED << embeddedAs, calls >>
  /\ EmbFrame

\* Extension, BlockManager.delete: the block goes and 'block:removed' is
\* fired, on which the service's listener, while it is registered, deletes
\* the id's cache entry.
DeleteBlock(id) ==
  /\ host = "ext"
  /\ eIndex[id] # ""
  /\ eIndex' = [eIndex EXCEPT ![id] = ""]
  /\ cache' = IF eventListeners THEN [cache EXCEPT ![id] = NoEntry] ELSE cache
  /\ cout' = [NoCout("removed") EXCEPT !.id = id]
  /\ UNCHANGED << embeddedAs, calls >>
  /\ EmbFrame

\* The bulk clear.  Extension, BlockManager.clear: 'blocks:cleared' is fired
\* and the service's listener, while it is registered, clears the cache.
\* kernel-web, parseAllFiles: the maps of the parser are cleared and nothing
\* tells the service.
ClearBlocks ==
  /\ eIndex' = [i \in Ids |-> ""]
  /\ IF host = "ext" /\ eventListeners
       THEN cache' = [i \in Ids |-> NoEntry]
       ELSE UNCHANGED cache
  /\ cout' = NoCout("cleared")
  /\ UNCHANGED << embeddedAs, calls >>
  /\ EmbFrame

\* findSimilar(query, blocks, topK) up to the first suspension of
\* getBlockEmbeddings: the cache is checked for each block; with misses one
\* embed request goes out and the call is suspended, without misses
\* getBlockEmbeddings returns at once.  What findSimilar does with the
\* vectors afterwards does not touch the cache (see the ranking below).
FindSimilar(k, ids) ==
  /\ servicePhase # "stopped"
  /\ calls[k].pc = "idle"
  /\ ids # {} /\ \A i \in ids : eIndex[i] # ""
  /\ LET blocks == BlocksOf(ids)
         acc == checkCache(cache, blocks, 1,
                  [NoCall EXCEPT !.blocks = blocks,
                                 !.embeddings = [i \in DOMAIN blocks |-> NoVec]])
         missed == Len(acc.uncachedContents) > 0
     IN  /\ calls' = [calls EXCEPT ![k] =
                        IF missed THEN [acc EXCEPT !.pc = "embedding"] ELSE NoCall]
         /\ cout' = [NoCout("findSimilar") EXCEPT
                       !.call = k, !.blocks = blocks,
                       !.requests = IF missed THEN << acc.uncachedContents >> ELSE << >>,
                       !.vectors = IF missed THEN << >> ELSE acc.embeddings]
  /\ UNCHANGED << eIndex, cache, embeddedAs >>
  /\ EmbFrame

\* The embed request of a call is answered: the new vectors are cached and
\* getBlockEmbeddings returns.  (ensureReady lets findSimilar in only while
\* the service is ready, and a stopped worker answers nothing.)
EmbedOk(k) ==
  /\ servicePhase # "stopped"
  /\ calls[k].pc = "embedding"
  /\ LET s == storeNew([cache |-> cache, embeddedAs |-> embeddedAs, call |-> calls[k]],
                       embedResponse(calls[k].uncachedContents), 1)
     IN  /\ cache' = s.cache
         /\ embeddedAs' = s.embeddedAs
         /\ calls' = [calls EXCEPT ![k] = NoCall]
         /\ cout' = [NoCout("embedded") EXCEPT !.call = k, !.blocks = s.call.blocks,
                                               !.requests = << calls[k].uncachedContents >>,
                                               !.vectors = s.call.embeddings]
  /\ UNCHANGED eIndex
  /\ EmbFrame

\* The embed request fails (the worker is gone or answers with an error):
\* embed throws and so does findSimilar.
EmbedFail(k) ==
  /\ calls[k].pc = "embedding"
  /\ calls' = [calls EXCEPT ![k] = NoCall]
  /\ cout' = [NoCout("failed") EXCEPT !.call = k]
  /\ UNCHANGED << eIndex, cache, embeddedAs >>
  /\ EmbFrame

CacheNext ==
  \/ \E id \in Ids, content \in Contents : SetBlock(id, content)
  \/ \E id \in Ids, content \in Contents \cup {""} : WatchedChange(id, content)
  \/ \E id \in Ids : DeleteBlock(id)
  \/ ClearBlocks
  \/ \E k \in Finders, ids \in SUBSET Ids : FindSimilar(k, ids)
  \/ \E k \in Finders : EmbedOk(k)
  \/ \E k \in Finders : EmbedFail(k)

CacheSpec == CacheInit /\ [][CacheNext]_vars

\* The life of one EmbeddingsService instance of the extension: the
\* constructor has registered the listeners; stop() and start() follow.
ListenInit ==
  /\ \E c \in {<<"ext", TRUE, FALSE>>} :
       host = c[1] /\ cfgStdout = c[2] /\ cfgEndpoint = c[3]
  /\ SupInit
  /\ IxIdle
  /\ PureIdle

ServiceFrame ==
  /\ UNCHANGED << eIndex, cache, embeddedAs, calls >>
  /\ UNCHANGED << supvars, ixvars, scanvars, searchvars, genvars, rankvars, ctxvars, watchvars >>

\* EmbeddingsService.stop: the worker is stopped, the client dropped, the
\* listeners disposed and the array emptied.
ServiceStop ==
  /\ eventListeners' = FALSE
  /\ servicePhase' = "stopped"
  /\ cout' = NoCout("stop")
  /\ ServiceFrame

\* EmbeddingsService.start: serverManager.start() and nothing else;
\* setupEventListeners is called by the constructor only.
ServiceStart ==
  /\ servicePhase' = IF servicePhase = "up" THEN "up" ELSE "restarted"
  /\ cout' = NoCout("start")
  /\ UNCHANGED eventListeners
  /\ ServiceFrame

ListenNext ==
  \/ \E id \in Ids, content \in Contents : SetBlock(id, content)
  \/ \E id \in Ids : DeleteBlock(id)
  \/ ClearBlocks
  \/ \E ids \in SUBSET Ids : FindSimilar("search", ids)
  \/ EmbedOk("search")
  \/ EmbedFail("search")
  \/ ServiceStop
  \/ ServiceStart

ListenSpec == ListenInit /\ [][ListenNext]_vars

----------------------------------------------------------------------------
\* findSimilar as one sequential call.

\* getBlockEmbeddings when the embed request succeeds: the first loop, the
\* request for the misses, the second loop.  Gives [cache, embeddedAs, call].
getBlockEmbeddings(ch, blocks) ==
  LET acc == checkCache(ch, blocks, 1,
               [NoCall EXCEPT !.blocks = blocks,
                              !.embeddings = [i \in DOMAIN blocks |-> NoVec]])
      s0 == [cache |-> ch, embeddedAs |-> [i \in DOMAIN ch |-> ""], call |-> acc]
  IN  IF Len(acc.uncachedContents) > 0
        THEN storeNew(s0, embedResponse(acc.uncachedContents), 1)
        ELSE s0

RankInit ==
  /\ \E c \in {<<"web", FALSE, TRUE>>} :
       host = c[1] /\ cfgStdout = c[2] /\ cfgEndpoint = c[3]
  /\ SupInit
  /\ IxIdle
  /\ ScanIdle
  /\ SearchIdle
  /\ GenIdle
  /\ LateIdle

RankFrame == UNCHANGED << supvars, ixvars, scanvars, searchvars, genvars, embvars, ctxvars, watchvars >>

\* The caller's array gets one more block.
AddCandidate(content) ==
  /\ rout.op # "findSimilar"
  /\ Len(candidates) < MaxCands
  /\ candidates' = Append(candidates, [id |-> Len(candidates) + 1, content |-> content])
  /\ UNCHANGED << rankCache, rout >>
  /\ RankFrame

\* An earlier call has left an entry for a block's id, computed for the
\* content the block has now or for another.
Cached(id, content) ==
  /\ rout.op # "findSimilar"
  /\ id \in DOMAIN candidates
  /\ rankCache' = [rankCache EXCEPT ![id] = [contentHash |-> hashContent(content),
                                             embedding |-> Vec(content)]]
  /\ rout' = [NoRout EXCEPT !.op = "cached"]
  /\ UNCHANGED candidates
  /\ RankFrame

\* findSimilar(query, blocks, topK), the worker answering /vector_similarity
\* with one score per vector it was sent.  One call is followed to its end.
FindSimilarAll(topK, similarities) ==
  /\ rout.op # "findSimilar"
  /\ candidates # << >>
  /\ DOMAIN similarities = DOMAIN candidates
  /\ LET s == getBlockEmbeddings(rankCache, candidates)
     IN  /\ rankCache' = s.cache
         /\ rout' = [op |-> "findSimilar", topK |-> topK, similarities |-> similarities,
                     hits |-> { i \in DOMAIN candidates :
                                  \A j \in DOMAIN s.call.uncachedIndices :
                                    s.call.uncachedIndices[j] # i },
                     vectors |-> s.call.embeddings,
                     results |-> rank(candidates, similarities, topK)]
  /\ UNCHANGED candidates
  /\ RankFrame

RankNext ==
  \/ \E content \in Contents : AddCandidate(content)
  \/ \E id \in CandIds, content \in Contents : Cached(id, content)
  \/ \E topK \in 0 .. MaxTopK :
       \E n \in 1 .. MaxCands : \E similarities \in [1 .. n -> Scores] :
         FindSimilarAll(topK, similarities)

RankSpec == RankInit /\ [][RankNext]_vars

----------------------------------------------------------------------------
\* The context assembly (ContextService.gatherContext).

AlwaysIncludeOutcomes == {"found", "missing", "unreadable"}
CurrentContents ==
  { [text |-> FALSE, refs |-> << >>],            \* no current content
    [text |-> TRUE, refs |-> << >>],             \* content without references
    [text |-> TRUE, refs |-> << "x", "x" >>],    \* the same block referenced twice
    [text |-> TRUE, refs |-> << "y", "x" >>] }
CtxQueries == { << >>, << " " >>, << "q" >> }
SemanticLimits == {1, 2}
RecentLimits == {0, 1, 2}
Options ==
  [alwaysInclude : AlwaysIncludeOutcomes, currentContent : CurrentContents,
   query : CtxQueries, maxSemanticResults : SemanticLimits,
   maxRecentBlocks : RecentLimits]

\* One entry of contextParts: the tier that pushed it, what it is, and the
\* blocks whose text it holds.
Frag(tier, kind, blocks) == [tier |-> tier, kind |-> kind, blocks |-> blocks]

\* includeAlwaysIncludeFiles for one configured file name: a part when the
\* file is found and read, nothing when it is not found or reading throws.
includeAlwaysIncludeFiles(outcome) ==
  IF outcome = "found" THEN << Frag(1, "file", << >>) >> ELSE << >>

\* blockParser.getBlock(id): << >> when the id is not a key.
getBlock(index, id) == SelectSeq(index, LAMBDA b : b.id = id)

\* getReferencedBlocks, from the i-th reference of the content on.
\* s is [parts, included].
RECURSIVE getReferencedBlocks(_, _, _, _)
getReferencedBlocks(refs, index, i, s) ==
  IF i > Len(refs)
    THEN s
    ELSE LET id == refs[i]
             block == getBlock(index, id)
         IN  IF id \notin s.included /\ block # << >>
               THEN getReferencedBlocks(refs, index, i + 1,
                      [parts |-> Append(s.parts, Frag(3, "referenced", block)),
                       included |-> s.included \cup {id}])
               ELSE getReferencedBlocks(refs, index, i + 1, s)

\* getAllBlocks().filter(block => !includedBlockIds.has(block.id))
notIncluded(index, included) == SelectSeq(index, LAMBDA b : b.id \notin included)

\* The loop of getSemanticBlocks over the results of findSimilar, from the
\* i-th result on.  s is [parts, included].
RECURSIVE pushResults(_, _, _, _)
pushResults(allBlocks, results, i, s) ==
  IF i > Len(results)
    THEN s
    ELSE LET block == allBlocks[results[i].index + 1]
         IN  pushResults(allBlocks, results, i + 1,
               [parts |-> Append(s.parts, Frag(4, "related", << block >>)),
                included |-> s.included \cup {block.id}])

\* Array.prototype.slice(begin): a negative begin counts from the end, and
\* -0 is 0.
sliceFrom(seq, begin) ==
  LET from == IF begin < 0
                THEN (IF Len(seq) + begin > 0 THEN Len(seq) + begin ELSE 0)
                ELSE (IF begin < Len(seq) THEN begin ELSE Len(seq))
  IN  SubSeq(seq, from + 1, Len(seq))

\* A faulty tail that does not leave out the blocks already included; C28
\* must tell it from getRecentBlocks.
getRecentBlocks_Unfiltered(index, included, maxBlocks) ==
  sliceFrom(index, 0 - maxBlocks)

\* getRecentBlocks: filter, slice(-maxBlocks); the blocks of the joined text.
getRecentBlocks(index, included, maxBlocks) ==
  sliceFrom(notIncluded(index, included), 0 - maxBlocks)

\* Tier 5 of gatherContext: the recent blocks are pushed when their text is
\* not empty.
pushRecent(parts, index, included, maxRecentBlocks) ==
  LET recentBlocks == getRecentBlocks(index, included, maxRecentBlocks)
  IN  IF recentBlocks # << >>
        THEN Append(parts, Frag(5, "recent", recentBlocks))
        ELSE parts

\* A faulty start that pushes the current content before the always-include
\* files; C27 must tell it from tiersOneToThree.
tiersOneToThree_CurrentFirst(options, index) ==
  LET s1 == [parts |-> IF options.currentContent.text
                         THEN << Frag(2, "current", << >>) >> ELSE << >>,
             included |-> {}]
      s2 == [s1 EXCEPT !.parts = @ \o includeAlwaysIncludeFiles(options.alwaysInclude)]
  IN  IF options.currentContent.text
        THEN getReferencedBlocks(options.currentContent.refs, index, 1, s2)
        ELSE s2

\* gatherContext up to tier 4: the always-include files, then the current
\* content and the blocks it references.  Gives [parts, included].
tiersOneToThree(options, index) ==
  LET s1 == [parts |-> includeAlwaysIncludeFiles(options.alwaysInclude), included |-> {}]
  IN  IF options.currentContent.text
        THEN getReferencedBlocks(options.currentContent.refs, index, 1,
               [s1 EXCEPT !.parts = Append(@, Frag(2, "current", << >>))])
        ELSE s1

\* gatherContext from the return of findSimilar on: the results are pushed
\* under their header, then tier 5 reads the index as it is now.
afterSemantic(g, index, results) ==
  LET s == pushResults(g.allBlocks, results, 1,
             [parts |-> << >>, included |-> g.includedBlockIds])
      parts == IF Len(s.parts) > 0
                 THEN g.contextParts \o << Frag(4, "header", << >>) >> \o s.parts
                 ELSE g.contextParts
  IN  [g EXCEPT !.pc = "done", !.includedBlockIds = s.included,
                !.contextParts = pushRecent(parts, index, s.included,
                                            g.options.maxRecentBlocks)]

\* A faulty handling of a failed search that gives up the rest of the
\* assembly; C29 must tell it from afterFailure.
afterFailure_NoRecent(g, index) ==
  [g EXCEPT !.pc = "done", !.failed = TRUE]

\* gatherContext when findSimilar throws: getSemanticBlocks catches, logs and
\* returns its empty parts; tier 5 follows.
afterFailure(g, index) ==
  [g EXCEPT !.pc = "done", !.failed = TRUE,
            !.contextParts = pushRecent(g.contextParts, index, g.includedBlockIds,
                                        g.options.maxRecentBlocks)]

CtxInit ==
  /\ \E c \in {<<"web", FALSE, TRUE>>} :
       host = c[1] /\ cfgStdout = c[2] /\ cfgEndpoint = c[3]
  /\ SupInit
  /\ IxIdle
  /\ ScanIdle
  /\ SearchIdle
  /\ GenIdle
  /\ LateIdle

CtxFrame == UNCHANGED << supvars, ixvars, scanvars, searchvars, genvars, embvars, rankvars, watchvars >>

\* The index gets or changes a block: before the call, or once while the
\* call waits for findSimilar.
CtxSet(id, content) ==
  /\ \/ gather.pc = "idle" /\ content = "c" /\ UNCHANGED gather
     \/ /\ gather.pc = "searching" /\ ~gather.changed
        /\ gather' = [gather EXCEPT !.changed = TRUE]
  /\ ctxIndex' = mapSet(ctxIndex, id, content)
  /\ CtxFrame

\* The index loses a block while the call waits for findSimilar.
CtxDelete(id) ==
  /\ gather.pc = "searching" /\ ~gather.changed
  /\ getBlock(ctxIndex, id) # << >>
  /\ gather' = [gather EXCEPT !.changed = TRUE]
  /\ ctxIndex' = SelectSeq(ctxIndex, LAMBDA b : b.id # id)
  /\ CtxFrame

\* gatherContext(options) up to its await of findSimilar, or to its end
\* when tier 4 does not call findSimilar.
Gather(options, embeddingsReady) ==
  /\ gather.pc = "idle"
  /\ LET s == tiersOneToThree(options, ctxIndex)
         allBlocks == notIncluded(ctxIndex, s.included)
         g == [NoGather EXCEPT !.options = options, !.contextParts = s.parts,
                               !.includedBlockIds = s.included]
     IN  IF embeddingsReady /\ trim(options.query) # << >> /\ allBlocks # << >>
           THEN gather' = [g EXCEPT !.pc = "searching", !.allBlocks = allBlocks]
           ELSE gather' = [g EXCEPT !.pc = "done",
                             !.contextParts = pushRecent(s.parts, ctxIndex, s.included,
                                                         options.maxRecentBlocks)]
  /\ UNCHANGED ctxIndex
  /\ CtxFrame

\* findSimilar resolves with its ranking of allBlocks.
SemanticOk(similarities) ==
  /\ gather.pc = "searching"
  /\ DOMAIN similarities = DOMAIN gather.allBlocks
  /\ gather' = afterSemantic(gather, ctxIndex,
                 rank(gather.allBlocks, similarities, gather.options.maxSemanticResults))
  /\ UNCHANGED ctxIndex
  /\ CtxFrame

\* findSimilar throws.
SemanticFail ==
  /\ gather.pc = "searching"
  /\ gather' = afterFailure(gather, ctxIndex)
  /\ UNCHANGED ctxIndex
  /\ CtxFrame

CtxNext ==
  \/ \E id \in CtxIds, content \in Contents : CtxSet(id, content)
  \/ \E id \in CtxIds : CtxDelete(id)
  \/ \E options \in Options, embeddingsReady \in BOOLEAN : Gather(options, embeddingsReady)
  \/ \E n \in 1 .. Cardinality(CtxIds) : \E similarities \in [1 .. n -> Scores] :
       SemanticOk(similarities)
  \/ SemanticFail

CtxSpec == CtxInit /\ [][CtxNext]_vars

----------------------------------------------------------------------------
\* The supervisor as its callers see it.
IsRunningNow == isRunning(St("init"))
IsReadyNow == isReady(St("init"))

\* SupervisorState: Starting while a start() is in flight, Ready when no start
\* is in flight and isReady() answers true, Stopped otherwise.
SupState ==
  IF isStarting THEN "Starting"
  ELSE IF IsReadyNow THEN "Ready"
  ELSE "Stopped"

\* The tracked worker, known to have died: its spawn failed or its 'close'
\* event has been delivered.
TrackedDead == process # 0 /\ pstate[process] \in {"failed", "closed"}

\* The 'close' event of the tracked worker p is delivered while the supervisor
\* is Ready.
ExitWhileReady(p) ==
  /\ SupState = "Ready"
  /\ process = p
  /\ pstate[p] # "closed"
  /\ pstate'[p] = "closed"

\* How many times event e was emitted in the last step.
Emitted(o, e) == Cardinality({i \in DOMAIN o.ev : o.ev[i] = e})

----------------------------------------------------------------------------
\* C1: a start() called while an earlier start() is pending spawns no worker
\* and only joins the pending promise; callers leave the pending set only when
\* the attempt settles, and then all of them get the one outcome of that
\* attempt.
C1_JoinSharesPendingStart ==
  [][ /\ (out'.op = "start" /\ isStarting /\ startPromise)
           => /\ nprocs' = nprocs
              /\ pstate' = pstate
              /\ out'.settle = "none"
              /\ waiters \subseteq waiters'
              /\ waiters' # waiters
              /\ isStarting' /\ startPromise'
      /\ ~(waiters \subseteq waiters')
           => /\ out'.settle \in {"ok", "err"}
              /\ out'.who = waiters
              /\ waiters' = {}
    ]_vars

\* C1, the case: a pending start() joined by a second caller has failed, and
\* both callers were rejected in the same step.
C1_Witness == out.settle = "err" /\ out.who = Callers

\* C2: a worker-bound request reaches the network only when the supervisor
\* is Ready.
C2_FailFastUnlessReady == out.net => SupState = "Ready"

\* C3: when the tracked worker exits while the supervisor is Ready, isReady()
\* and isRunning() are both false afterwards; and a start() on a supervisor
\* whose tracked worker is known dead begins a new attempt that spawns.
C3_ExitLeavesStopped ==
  [][ /\ \A p \in Procs : ExitWhileReady(p) => (~IsReadyNow' /\ ~IsRunningNow')
      /\ (out'.op = "start" /\ ~isStarting /\ TrackedDead)
           => (nprocs' > nprocs /\ isStarting')
    ]_vars

\* C4: when the tracked worker exits while the supervisor is Ready, the
\* supervisor stops being Ready and starts nothing; and outside a start()
\* (no start in flight, the step not a start call) no worker is spawned and
\* the ready flag is never raised, so requests keep failing fast.
C4_NoAutoRestart ==
  [][ /\ \A p \in Procs :
           ExitWhileReady(p)
             => (~ready' /\ ~IsReadyNow' /\ nprocs' = nprocs /\ ~isStarting')
      /\ (~isStarting /\ out'.op # "start")
           => (nprocs' = nprocs /\ (ready' => ready) /\ ~isStarting')
      /\ out'.net => (ready /\ IsRunningNow)
    ]_vars

\* C4, the case: in the stdout configuration (the worker is tracked from its
\* readiness on) the tracked worker has closed, no start is in flight and the
\* ready flag is down.
C4_Witness ==
  /\ cfgStdout /\ ~cfgEndpoint
  /\ ~isStarting
  /\ process # 0 /\ pstate[process] = "closed"
  /\ ~ready

\* C5: at most one attempt is pending; candidate k+1 is spawned right after
\* candidate k, whose attempt has failed; the child spawned after a successful
\* attempt belongs to a new start() and uses the first candidate.
C5_CandidatesInOrder ==
  /\ Cardinality({p \in Procs : attempt[p] = "pending"}) <= 1
  /\ \A p \in 1..nprocs :
       /\ cmdOf[p] \in Cmds
       /\ cmdOf[p] > 1
            => (p > 1 /\ cmdOf[p - 1] = cmdOf[p] - 1 /\ attempt[p - 1] = "failed")
       /\ (attempt[p] = "ok" /\ p < nprocs) => cmdOf[p + 1] = 1

\* C5, the case: the first candidate failed and the second one reached
\* readiness.
C5_Witness == nprocs >= 2 /\ cmdOf[2] = 2 /\ attempt[2] = "ok"

\* C6: once the last candidate has failed to spawn, start() has rejected:
\* no start is in flight any more and the supervisor is not Ready.
C6_ExhaustionRejectsAtOnce ==
  (nprocs > 0 /\ cmdOf[nprocs] = NumCmds /\ pstate[nprocs] = "failed")
    => (~isStarting /\ ~IsReadyNow /\ HostAlive)

\* C7: every failure kind settles the attempt: an attempt whose child failed
\* to spawn, or whose child has closed, is no longer pending.
C7_FailureSettlesAttempt ==
  \A p \in 1..nprocs :
    pstate[p] \in {"failed", "closed"} => attempt[p] \in {"ok", "failed"}

\* C8: a step emits 'ready' exactly once if it takes the supervisor into
\* Ready, and not at all otherwise.
C8_ReadyOncePerTransition ==
  [][ Emitted(out', "ready") =
        (IF SupState # "Ready" /\ SupState' = "Ready" THEN 1 ELSE 0) ]_vars

\* C9: stop() with a live tracked worker kills it, leaves isRunning() and
\* isReady() false and emits 'stopped' once; stop() with no tracked worker, or
\* with a tracked worker that is killed or known dead, changes nothing and
\* emits nothing.
C9_StopActsOnLiveWorkerOnly ==
  [][ out'.op = "stop" =>
        IF process # 0 /\ ~killed[process] /\ pstate[process] = "running"
          THEN /\ killed'[process]
               /\ ~IsRunningNow' /\ ~IsReadyNow'
               /\ out'.ev = << "stopped" >>
          ELSE /\ UNCHANGED << process, ready, killed, isStarting, svcReady >>
               /\ out'.ev = << >>
    ]_vars

\* C10: when the host's start() is rejected the host keeps running.
C10_ExhaustionKeepsHostRunning ==
  (out.settle = "err" /\ "host" \in out.who) => HostAlive

\* C11: every start() eventually settles: a start in flight is always
\* followed by a state with no start in flight.
C11_StartSettles == isStarting ~> ~isStarting

----------------------------------------------------------------------------
\* The block index as its callers see it.

\* The ids of the forward map, and those whose block is attributed to file f.
Keys(bm) == { i \in Ids : bm[i] # NoBlock }
Attributed(bm, f) == { i \in Ids : bm[i] # NoBlock /\ bm[i].file = f }

\* C12: after parseFile(p) the ids attributed to p are exactly the ids that
\* p's text defines, and the blocks of the other files (those whose ids p
\* does not define itself) are what they were before the parse.
C12_ParseReconcilesOneFile ==
  [][(rev = "BlockParser" /\ bout'.op = "parse") =>
       LET p == bout'.file
           defined == IdsOf(bout'.text)
       IN  /\ Attributed(blockMap', p) = defined
           /\ \A i \in Keys(blockMap) \ defined :
                blockMap[i].file # p => blockMap'[i] = blockMap[i]]_vars

\* C13: the reverse index and the forward map agree in every reachable state:
\* an id is in file f's set exactly when the forward map holds a block of
\* that id whose file is f.
C13_IndexesAgree ==
  \A f \in Files, i \in Ids :
    i \in fileIndex[f] <=> (blockMap[i] # NoBlock /\ blockMap[i].file = f)

\* C14: parsing the same file with the same text twice in a row leaves the
\* index, after the second parse, with the id set and the block per id that
\* the first parse left.
C14_ReparseIsIdempotent ==
  [][(bout'.op = "parse" /\ bout'.again) => blockMap' = blockMap]_vars

\* A non-empty text was parsed twice in a row into an index that held blocks
\* of both files.
C14_Witness ==
  /\ bout.op = "parse" /\ bout.again /\ Len(bout.text) = 2
  /\ IdsOf(bout.text) = Ids
  /\ rev = "BlockParser"
  /\ fileIndex[CHOOSE g \in Files : g # bout.file] # {}

\* The occurrences of an id in a text that no later occurrence follows.
LastOccurrences(text) ==
  { k \in DOMAIN text : \A j \in DOMAIN text : j > k => text[j][1] # text[k][1] }

C17_SaveKeepsExistingBlock ==
  [][(bout'.op = "save" /\ bout'.id \in Keys(blockMap)) =>
       blockMap'[bout'.id] = blockMap[bout'.id]]_vars

\* C20: within one parse call nothing observes the index with the file's old
\* blocks removed and its current blocks not yet inserted: no listener that
\* runs during the parse of p sees the index without an id that p defined
\* before the parse and still defines.
C20_NoPartialParseVisible ==
  [][bout'.op = "parse" =>
       \A k \in DOMAIN bout'.obs :
         \A i \in Attributed(blockMap, bout'.file) \cap IdsOf(bout'.text) :
           bout'.obs[k][i] # NoBlock]_vars

----------------------------------------------------------------------------
\* The scanner as its callers see it.

\* The number of occurrences of character ch at positions a..b of the text.
Count(text, ch, a, b) == Cardinality({ k \in a..b : At(text, k) = ch })

\* The opening delimiter at s is not closed before position i: no closing
\* delimiter between them is left over once the pairs opened after s are
\* closed.
Unclosed(text, s, i) ==
  /\ At(text, s) = "["
  /\ \A c \in (s + 1)..(i - 1) :
       Count(text, "]", s + 1, c) <= Count(text, "[", s + 1, c)

\* The positions of the closing delimiters that a tag follows.
TagPositions(text) == { i \in 0..(Len(text) - 1) : matchesAt(text, i) }

\* s is some blanks, then t, then some blanks, and t neither starts nor ends
\* with a blank.
IsTrimOf(t, s) ==
  /\ \E a, b \in 0..Len(s) :
       /\ a + Len(t) + b = Len(s)
       /\ \A k \in 1..Len(s) :
            IF k <= a \/ k > a + Len(t) THEN s[k] = " " ELSE s[k] = t[k - a]
  /\ t # << >> => (t[1] # " " /\ t[Len(t)] # " ")

\* C15: every closing delimiter that a tag follows is paired with the nearest
\* preceding opening delimiter that is not closed in between, also when the
\* body holds nested pairs; the content is the trimmed text strictly between
\* the two; a tag without such an opening delimiter yields no block.
C15_PairsWithOwnOpener ==
  scanPc = "done" =>
    /\ { found[k].endPos : k \in DOMAIN found } =
         { i \in TagPositions(scanText) :
             \E s \in 0..(i - 1) : Unclosed(scanText, s, i) }
    /\ \A k, j \in DOMAIN found : k < j => found[k].endPos < found[j].endPos
    /\ \A k \in DOMAIN found :
         LET m == found[k]
         IN  /\ m.startPos \in 0..(m.endPos - 1)
             /\ Unclosed(scanText, m.startPos, m.endPos)
             /\ \A s \in (m.startPos + 1)..(m.endPos - 1) :
                  ~Unclosed(scanText, s, m.endPos)
             /\ IsTrimOf(m.content,
                         SubSeq(scanText, m.startPos + 2, m.endPos))

\* A text was scanned that holds a block inside the body of another block:
\* the outer block is paired with its own opening delimiter.
C15_Witness ==
  /\ scanPc = "done"
  /\ Len(found) = 2
  /\ found[2].startPos < found[1].startPos

----------------------------------------------------------------------------
\* Search and id generation as their callers see them.

SameLetter(a, b) == a = b \/ {a, b} = {"a", "A"} \/ {a, b} = {"b", "B"}

\* s contains sub as a substring when case is ignored.
ContainsIgnoringCase(s, sub) ==
  \E k \in 0..(Len(s) - Len(sub)) :
    \A j \in 1..Len(sub) : SameLetter(s[k + j], sub[j])

\* The positions of the blocks that a query matches.
Matching(blocks, q) ==
  { k \in DOMAIN blocks : \/ ContainsIgnoringCase(blocks[k].id, q)
                          \/ ContainsIgnoringCase(blocks[k].content, q) }

\* C18: search returns exactly the blocks whose id or content contains the
\* query ignoring case, each once, in the insertion order of the index.
C18_SearchExactInOrder ==
  searchPc = "done" =>
    LET M == Matching(sBlocks, sQuery)
    IN  /\ Len(hits) = Cardinality(M)
        /\ \A k \in M : hits[Cardinality({ j \in M : j <= k })] = sBlocks[k]

\* A query in upper case was answered with the second of two blocks only,
\* which holds it in lower case.
C18_Witness ==
  /\ searchPc = "done" /\ Len(sBlocks) = 2
  /\ sQuery = <<"A">>
  /\ hits = << sBlocks[2] >>
  /\ sBlocks[2].content = <<"b", "a">>

LowerAlnum ==
  { "a", "b", "c", "d", "e", "f", "g", "h", "i", "j", "k", "l", "m",
    "n", "o", "p", "q", "r", "s", "t", "u", "v", "w", "x", "y", "z",
    "0", "1", "2", "3", "4", "5", "6", "7", "8", "9" }

\* C19: the id that generateId returns has six characters, all lowercase
\* letters or digits, and is not a key of the index.
C19_FreshSixCharId ==
  genPc = "returned" =>
    /\ Len(candidate) = 6
    /\ \A k \in DOMAIN candidate : candidate[k] \in LowerAlnum
    /\ candidate \notin gKeys

\* generateId returned after it had drawn an id the index holds and drawn
\* again.
C19_Witness == genPc = "returned" /\ retried /\ gKeys # {}

----------------------------------------------------------------------------
\* The embedding cache as its callers see it.

\* The places of an embed request that stand for block i of the call.
Covered(call, i) == { j \in DOMAIN call.uncachedIndices : call.uncachedIndices[j] = i }

\* The entry of an id is still the one written when the id was last
\* embedded: no removal or clear has taken it since.
Retained(id) == cache[id] # NoEntry

IsHit(ch, block) == ch[block.id].contentHash = hashContent(block.content)

\* The contents of the blocks that miss, in the order of the blocks.
RECURSIVE MissContents(_, _)
MissContents(ch, blocks) ==
  IF blocks = << >> THEN << >>
  ELSE IF IsHit(ch, Head(blocks))
         THEN MissContents(ch, Tail(blocks))
         ELSE << Head(blocks).content >> \o MissContents(ch, Tail(blocks))

\* The blocks of a call that missed when the call was made.
MissedBlocks(call) == { call.blocks[call.uncachedIndices[j]] : j \in DOMAIN call.uncachedIndices }

\* C22: a findSimilar call issues no embed request when every block hits,
\* and otherwise one request carrying exactly the contents of the missing
\* blocks in input order, and writes nothing before the answer; when the
\* answer arrives the entries of the blocks that missed become the hash of
\* their content with the vector of that content, and every other entry,
\* those of the hit blocks included, is left as it is; a failed request
\* writes nothing.
C22_OneBatchWritesOnlyMisses ==
  [][/\ cout'.op = "findSimilar" =>
          /\ cout'.requests = IF MissContents(cache, cout'.blocks) = << >>
                                THEN << >>
                                ELSE << MissContents(cache, cout'.blocks) >>
          /\ cache' = cache
     /\ cout'.op = "embedded" =>
          LET call == calls[cout'.call]
          IN  /\ \A b \in MissedBlocks(call) :
                   cache'[b.id] = [contentHash |-> hashContent(b.content),
                                   embedding |-> Vec(b.content)]
              /\ \A i \in Ids :
                   (\A b \in MissedBlocks(call) : b.id # i) => cache'[i] = cache[i]
     /\ cout'.op = "failed" => cache' = cache]_vars

\* A call for two blocks, the first a miss and the second a hit, has been
\* answered: the miss has its new entry and the hit still has its own.
C22_Witness ==
  /\ cout.op = "embedded" /\ Len(cout.blocks) = 2
  /\ cout.requests = << << cout.blocks[1].content >> >>
  /\ \A i \in {1, 2} : IsHit(cache, cout.blocks[i])

\* C25: whatever the interleaving of overlapping findSimilar calls, of index
\* changes and of invalidations, every cache entry pairs the hash of some
\* content with the vector computed for that same content, so a block that
\* hits gets the vector of its own content.
C25_EntriesPairHashWithItsVector ==
  /\ \A i \in Ids :
       cache[i] # NoEntry =>
         \E c \in Contents : cache[i] = [contentHash |-> hashContent(c),
                                         embedding |-> Vec(c)]
  /\ cout.op \in {"findSimilar", "embedded"} =>
       \A i \in DOMAIN cout.vectors :
         cout.vectors[i] = Vec(cout.blocks[i].content)

\* Two calls overlap on the same block id with different contents for it,
\* both having missed: one has just been answered and its entry stored while
\* the other still waits for its answer, which will overwrite the entry.
C25_Witness ==
  /\ cout.op = "embedded"
  /\ \E k \in Finders, i \in DOMAIN cout.blocks :
       /\ k # cout.call /\ calls[k].pc = "embedding"
       /\ cache[cout.blocks[i].id] = [contentHash |-> hashContent(cout.blocks[i].content),
                                      embedding |-> Vec(cout.blocks[i].content)]
       /\ \E b \in MissedBlocks(calls[k]) :
            b.id = cout.blocks[i].id /\ b.content # cout.blocks[i].content

\* C26: right after the index has removed a block the cache holds no entry
\* for its id, and right after the index has been cleared the cache is empty.
C26_CacheFollowsIndex ==
  /\ cout.op = "removed" => cache[cout.id] = NoEntry
  /\ cout.op = "cleared" => \A i \in Ids : cache[i] = NoEntry

----------------------------------------------------------------------------
\* The ranking of findSimilar as its callers see it.

Min(a, b) == IF a < b THEN a ELSE b

\* The positions of the input (counted from 0, as `index` counts) that a
\* result sequence returns.
Returned(results) == { results[i].index : i \in DOMAIN results }

\* C23 (amended): findSimilar returns min(topK, number of candidates)
\* results, in order of non-increasing score with equal scores in input
\* order, and no candidate it leaves out scores more than one it returns.
C23_SortedAndTruncated ==
  rout.op = "findSimilar" =>
    LET results == rout.results
    IN  /\ Len(results) = Min(rout.topK, Len(candidates))
        /\ \A i \in DOMAIN results : \A j \in DOMAIN results :
             i < j => \/ results[i].score > results[j].score
                      \/ /\ results[i].score = results[j].score
                         /\ results[i].index < results[j].index
        /\ \A i \in DOMAIN results : \A p \in DOMAIN candidates :
             (p - 1) \notin Returned(results) => rout.similarities[p] <= results[i].score

\* Three candidates and topK = 2: two results come back, the better first,
\* and a candidate is left out.
C23_Witness ==
  /\ rout.op = "findSimilar" /\ rout.topK = 2 /\ Len(candidates) = 3
  /\ Len(rout.results) = 2
  /\ rout.results[1].score > rout.results[2].score
  /\ rout.results[1].index > rout.results[2].index

\* C23 as stated: the results are in strictly descending order of score and
\* there are at most topK of them.
C23_StrictlyDescending ==
  rout.op = "findSimilar" =>
    /\ Len(rout.results) <= rout.topK
    /\ \A i \in DOMAIN rout.results : \A j \in DOMAIN rout.results :
         i < j => rout.results[i].score > rout.results[j].score

\* C24: the vectors findSimilar sends to the worker are those of the input
\* blocks' contents in input order, whichever of them came from the cache,
\* and every result carries an input position i (once), the score the worker
\* returned at position i and the content of blocks[i].
C24_ScoresZippedOntoInput ==
  rout.op = "findSimilar" =>
    LET results == rout.results
    IN  /\ rout.vectors = [i \in DOMAIN candidates |-> Vec(candidates[i].content)]
        /\ \A k \in DOMAIN results :
             /\ results[k].index + 1 \in DOMAIN candidates
             /\ results[k].score = rout.similarities[results[k].index + 1]
             /\ results[k].chunk = candidates[results[k].index + 1].content
        /\ \A k \in DOMAIN results : \A l \in DOMAIN results :
             results[k].index = results[l].index => k = l

\* Two blocks of different contents, the first found in the cache and the
\* second not, the worker scoring the second higher, topK = 1: the one
\* result is the second block with its score.
C24_Witness ==
  /\ rout.op = "findSimilar" /\ rout.topK = 1 /\ Len(candidates) = 2
  /\ candidates[1].content # candidates[2].content
  /\ rout.hits = {1}
  /\ rout.similarities = << 1, 2 >>
  /\ rout.results = << [chunk |-> candidates[2].content, score |-> 2, index |-> 1] >>

----------------------------------------------------------------------------
\* The context assembly as its callers see it.

\* The tiers of the fragments of an assembled context, in order.
TiersOf(parts) == [i \in DOMAIN parts |-> parts[i].tier]

Kinds(parts, kind) == { i \in DOMAIN parts : parts[i].kind = kind }

\* C27: the fragments of an assembled context are in tier order, always-
\* include files, current content, referenced blocks, semantically similar
\* blocks (under their header), recent blocks, whichever tiers are present;
\* the file fragment is there exactly when the file was found and read, the
\* current content exactly when it was given.
C27_FragmentsInTierOrder ==
  gather.pc = "done" =>
    LET parts == gather.contextParts
    IN  /\ \A i \in DOMAIN parts : \A j \in DOMAIN parts :
             i < j => parts[i].tier <= parts[j].tier
        /\ \A i \in DOMAIN parts : \A j \in DOMAIN parts :
             parts[i].kind = "header" /\ parts[j].kind = "related" => i < j
        /\ Cardinality(Kinds(parts, "file")) =
             (IF gather.options.alwaysInclude = "found" THEN 1 ELSE 0)
        /\ Cardinality(Kinds(parts, "current")) =
             (IF gather.options.currentContent.text THEN 1 ELSE 0)
        /\ Kinds(parts, "referenced") # {} => gather.options.currentContent.text
        /\ Cardinality(Kinds(parts, "recent")) <= 1

\* An assembly in which all five tiers are present.
C27_Witness ==
  /\ gather.pc = "done"
  /\ TiersOf(gather.contextParts) = << 1, 2, 3, 4, 4, 5 >>

\* The places of an assembled context where a block of the given id is
\* emitted.
EmittedAt(parts, id) ==
  { << i, k >> \in (DOMAIN parts) \X (1 .. Cardinality(CtxIds)) :
      k \in DOMAIN parts[i].blocks /\ parts[i].blocks[k].id = id }

\* C28: no block id is emitted more than once in the block fragments of an
\* assembled context, whatever the options and the index, also when the
\* index changes while findSimilar is awaited.
C28_NoBlockTwice ==
  gather.pc = "done" =>
    \A id \in CtxIds : Cardinality(EmittedAt(gather.contextParts, id)) <= 1

\* An assembly with a referenced, a related and a recent block, in which the
\* related block was changed in the index while findSimilar was awaited.
C28_Witness ==
  /\ gather.pc = "done" /\ gather.changed
  /\ Kinds(gather.contextParts, "referenced") # {}
  /\ Kinds(gather.contextParts, "recent") # {}
  /\ \E i \in Kinds(gather.contextParts, "related") :
       LET b == gather.contextParts[i].blocks[1]
       IN  /\ getBlock(ctxIndex, b.id) # << >>
           /\ getBlock(ctxIndex, b.id)[1].content # b.content

\* C29: when findSimilar throws, gatherContext still comes to its end, with
\* the context it would have assembled had findSimilar found nothing: the
\* fragments of tiers 1 to 3 as they were, no fragment of tier 4, and the
\* recent blocks of tier 5.
C29_FailedSearchIsEmptySearch ==
  [][gather.pc = "searching" /\ gather'.failed =>
       /\ gather'.pc = "done"
       /\ gather'.contextParts = afterSemantic(gather, ctxIndex', << >>).contextParts
       /\ SubSeq(gather'.contextParts, 1, Len(gather.contextParts)) = gather.contextParts
       /\ \A i \in DOMAIN gather'.contextParts : gather'.contextParts[i].tier # 4]_vars

\* A search has failed in an assembly that has its file, its current
\* content, a referenced block and its recent blocks.
C29_Witness ==
  /\ gather.pc = "done" /\ gather.failed
  /\ TiersOf(gather.contextParts) = << 1, 2, 3, 5 >>

\* The blocks of the recent-blocks fragment of an assembled context.
RecentOf(parts) ==
  IF Kinds(parts, "recent") = {} THEN << >>
  ELSE parts[CHOOSE i \in Kinds(parts, "recent") : TRUE].blocks

\* The last n elements of a sequence, all of it when it has fewer.
LastN(seq, n) == SubSeq(seq, Len(seq) - Min(n, Len(seq)) + 1, Len(seq))

\* C30: the recent-blocks tail of an assembled context holds the last
\* maxRecentBlocks, in index order, of the blocks no earlier tier has
\* included, and so at most maxRecentBlocks blocks, for every count from 0 on.
C30_TailWithinLimit ==
  gather.pc = "done" =>
    /\ Len(RecentOf(gather.contextParts)) <= gather.options.maxRecentBlocks
    /\ RecentOf(gather.contextParts) =
         LastN(notIncluded(ctxIndex, gather.includedBlockIds),
               gather.options.maxRecentBlocks)

----------------------------------------------------------------------------
\* The file watcher of kernel-web (setupFileWatching).  The index is the
\* BlockParser's; a file's text is the sequence of block definitions in it.

WatchTexts == { << >> } \cup { << << id, "c" >> >> : id \in Ids }
WatchEvents == {"added", "changed", "unlink"}

WatchInit ==
  /\ \E c \in {<<"web", FALSE, TRUE>>} :
       host = c[1] /\ cfgStdout = c[2] /\ cfgEndpoint = c[3]
  /\ SupInit
  /\ IxIdle
  /\ PureIdle

WatchFrame ==
  UNCHANGED << rev, supvars, scanvars, searchvars, genvars, embvars, rankvars, ctxvars >>

\* debouncedProcess: the pending timer, whatever file it was set for, is
\* cleared and a new one is set for this file and event.
debouncedProcess(f, event) == [set |-> TRUE, file |-> f, event |-> event]

\* A file of the watched folder is created, rewritten or deleted, and
\* chokidar calls the handler of the event.
FileEvent(f, event, text) ==
  /\ CASE event = "added" -> ~disk[f].there
       [] event = "changed" -> disk[f].there /\ text # disk[f].text
       [] event = "unlink" -> disk[f].there /\ text = << >>
  /\ disk' = [disk EXCEPT ![f] = [there |-> event # "unlink", text |-> text]]
  /\ debounceTimer' = debouncedProcess(f, event)
  /\ unparsed' = [unparsed EXCEPT ![f] = event # "unlink"]
  /\ wout' = [op |-> "event", file |-> f, event |-> event]
  /\ UNCHANGED << isProcessing, parsing, blockMap, fileIndex, bout >>
  /\ WatchFrame

\* The timer fires and calls processFileChange(filePath, event), which runs
\* to its first suspension: it returns at once while another call is being
\* processed; for 'unlink' it clears the cache entries of the file's blocks,
\* skips parseFile and ends; otherwise it is suspended in parseFile's
\* readFile.
TimerFires ==
  /\ debounceTimer.set
  /\ debounceTimer' = NoTimer
  /\ IF isProcessing
       THEN /\ wout' = [op |-> "dropped", file |-> debounceTimer.file,
                        event |-> debounceTimer.event]
            /\ UNCHANGED << isProcessing, parsing >>
       ELSE IF debounceTimer.event = "unlink"
         THEN /\ wout' = [op |-> "processed", file |-> debounceTimer.file,
                          event |-> debounceTimer.event]
              /\ UNCHANGED << isProcessing, parsing >>
         ELSE /\ isProcessing' = TRUE
              /\ parsing' = debounceTimer.file
              /\ wout' = [op |-> "reading", file |-> debounceTimer.file,
                          event |-> debounceTimer.event]
  /\ UNCHANGED << disk, unparsed, blockMap, fileIndex, bout >>
  /\ WatchFrame

\* readFile settles and the suspended processFileChange runs to its end:
\* parseFile replaces the file's blocks by those of the text read; when the
\* file is gone readFile rejects, the catch logs it and the index is left as
\* it was.  `finally` resets isProcessing.
ReadSettles ==
  /\ parsing # ""
  /\ LET f == parsing
         ix == IF disk[f].there THEN parseFile(Ix, f, disk[f].text) ELSE Ix
     IN  /\ blockMap' = ix.blockMap
         /\ fileIndex' = ix.fileIndex
         /\ unparsed' = [unparsed EXCEPT ![f] = IF disk[f].there THEN FALSE ELSE @]
         /\ wout' = [op |-> "processed", file |-> f,
                     event |-> IF disk[f].there THEN "changed" ELSE "failed"]
  /\ isProcessing' = FALSE
  /\ parsing' = ""
  /\ UNCHANGED << disk, debounceTimer, bout >>
  /\ WatchFrame

WatchNext ==
  \/ \E f \in Files, event \in WatchEvents, text \in WatchTexts : FileEvent(f, event, text)
  \/ TimerFires
  \/ ReadSettles

WatchSpec == WatchInit /\ [][WatchNext]_vars

\* The timer of a Node process fires once it is due, and a file read settles.
WatchLiveSpec == WatchSpec /\ WF_vars(TimerFires) /\ WF_vars(ReadSettles)

\* C32: once an unlink event of a file has been processed, the index holds
\* no block attributed to that file.
C32_UnlinkRemovesBlocks ==
  (wout.op = "processed" /\ wout.event = "unlink") =>
    /\ fileIndex[wout.file] = {}
    /\ \A id \in Ids : blockMap[id].file # wout.file

\* C37: a file that was added or changed is eventually read by parseFile
\* again (or deleted).
C37_ChangeIsReparsed == \A f \in Files : unparsed[f] ~> ~unparsed[f]

----------------------------------------------------------------------------
\* The supervisor's workers.

\* The children that are alive and have not been sent a kill.
LiveUnkilled == { p \in Procs : pstate[p] = "running" /\ ~killed[p] }

\* C31: at every step at most one child of the supervisor is alive without
\* having been sent a kill; when a child is spawned every earlier child has
\* exited or been sent a kill, and a call of start() spawns none while a
\* live worker is tracked.
C31_OneLiveWorker ==
  [][/\ Cardinality(LiveUnkilled') <= 1
     /\ nprocs' > nprocs =>
          /\ \A q \in 1 .. nprocs : pstate'[q] # "running" \/ killed'[q]
          /\ out'.op = "start" => ~(process # 0 /\ ~killed[process])]_vars

\* A second candidate has been spawned while the first candidate's process,
\* sent a kill, has not exited yet.
C31_Witness ==
  /\ nprocs >= 2
  /\ pstate[1] = "running" /\ killed[1]
  /\ pstate[2] = "running" /\ ~killed[2]

\* C34: isReady() goes from true to false only in a stop() or in the step in
\* which the tracked worker, the one that reached readiness, exits; the
\* 'close' of any other child leaves a Ready supervisor Ready.
C34_OnlyOwnExitClearsReady ==
  [][(IsReadyNow /\ ~IsReadyNow') =>
       \/ out'.op = "stop"
       \/ pstate[process] # "closed" /\ pstate'[process] = "closed"]_vars

\* C35: in the step in which a start() call resolves without error, isReady()
\* is true, also when start() returns early on a tracked process handle.
C35_ResolvedStartIsReady == out.settle = "ok" => IsReadyNow

\* C36: once stop() has returned, and until start() is called again, no step
\* emits 'ready' and isReady() stays false, also when stop() was called while
\* a start() was pending.
C36_NoReadyAfterStop ==
  out.afterStop => (Emitted(out, "ready") = 0 /\ ~IsReadyNow)

----------------------------------------------------------------------------
\* The cache and the removals of the index.

\* C38: in the extension, once no findSimilar call is in flight, the cache
\* holds no entry for an id that is not in the index.
C38_NoEntryForRemovedId ==
  (host = "ext" /\ \A k \in Finders : calls[k].pc = "idle") =>
    \A i \in Ids : eIndex[i] = "" => cache[i] = NoEntry

\* C39: while a service instance is in operation, be it since its
\* construction or since a start() that followed a stop(), the cache holds no
\* entry for a block right after the index has removed it, and no entry at
\* all right after the index has been cleared.
C39_InvalidationSurvivesRestart ==
  servicePhase # "stopped" =>
    /\ cout.op = "removed" => cache[cout.id] = NoEntry
    /\ cout.op = "cleared" => \A i \in Ids : cache[i] = NoEntry

----------------------------------------------------------------------------
\* The notifications of the BlockManager.

\* The ids for which a sequence of notifications has an event of the type.
EventsOf(events, type) ==
  { events[k].id : k \in { j \in DOMAIN events : events[j].type = type } }

\* The ids whose cache entry the listeners of the embeddings service drop on
\* a sequence of notifications.
Invalidated(events) ==
  IF \E k \in DOMAIN events : events[k].type = "blocks:cleared"
    THEN Ids
    ELSE EventsOf(events, "block:removed")

\* The ids an index holds.
Present(bm) == { i \in Ids : bm[i] # NoBlock }

\* What an observer holding the id set `seen` holds after the notifications
\* from the k-th on.
RECURSIVE Replay(_, _, _)
Replay(seen, events, k) ==
  IF k > Len(events)
    THEN seen
    ELSE LET e == events[k]
         IN  Replay(CASE e.type = "block:added" -> seen \cup {e.id}
                      [] e.type = "block:updated" -> seen
                      [] e.type = "block:removed" -> seen \ {e.id}
                      [] e.type = "blocks:cleared" -> {},
                    events, k + 1)

\* Each notification from the k-th on tells the observer the truth: an
\* added id is new to it, an updated or removed id is one it holds.
RECURSIVE Faithful(_, _, _)
Faithful(seen, events, k) ==
  \/ k > Len(events)
  \/ LET e == events[k]
     IN  /\ CASE e.type = "block:added" -> e.id \notin seen
              [] e.type = "block:updated" -> e.id \in seen
              [] e.type = "block:removed" -> e.id \in seen
              [] e.type = "blocks:cleared" -> TRUE
         /\ Faithful(Replay(seen, << e >>, 1), events, k + 1)

\* The notifications of set() among a sequence of notifications.
SetEvents(events) ==
  SelectSeq(events, LAMBDA e : e.type \in {"block:added", "block:updated"})

\* C33: a parse by DocumentParser.parseDocument removes, and announces as
\* removed, exactly the blocks the file's index entry names that the text
\* no longer defines; every id the text defines stays a block of the file,
\* and none of them has its cache entry dropped by the service's listeners.
C33_ReparseKeepsDefinedIds ==
  [][(rev = "DocumentParser" /\ bout'.op = "parse") =>
       LET f == bout'.file
           defined == IdsOf(bout'.text)
           gone == { id \in fileIndex[f] \ defined : blockMap[id] # NoBlock }
       IN  /\ EventsOf(bout'.events, "block:removed") = gone
           /\ Present(blockMap) \ Present(blockMap') = gone
           /\ Invalidated(bout'.events) \cap defined = {}
           /\ \A id \in defined :
                /\ blockMap'[id].file = f
                /\ \E k \in DOMAIN bout'.text :
                     bout'.text[k] = << id, blockMap'[id].content >>]_vars

\* A re-parse has updated one block of the file in place and removed
\* another that the text no longer defines.
C33_Witness ==
  /\ rev = "DocumentParser" /\ bout.op = "parse"
  /\ EventsOf(bout.events, "block:updated") # {}
  /\ EventsOf(bout.events, "block:removed") # {}

\* C40: every notification of the BlockManager is true of the index at the
\* moment it is fired (added: the id was absent; updated and removed: the id
\* was present), set() fires one notification per call, delete() fires one
\* if and only if the id was present, clear() fires blocks:cleared; an
\* observer that held the id set of the index before a step and replays the
\* step's notifications holds the id set of the index after it.
C40_NotificationsMirrorIndex ==
  [][rev # "BlockParser" =>
       /\ Faithful(Present(blockMap), bout'.events, 1)
       /\ Replay(Present(blockMap), bout'.events, 1) = Present(blockMap')
       /\ bout'.op = "parse" =>
            LET sets == SetEvents(bout'.events)
            IN  /\ Len(sets) = Len(bout'.text)
                /\ \A k \in DOMAIN sets : sets[k].id = bout'.text[k][1]
       /\ bout'.op = "delete" =>
            bout'.events = IF blockMap[bout'.id] # NoBlock
                             THEN << [type |-> "block:removed", id |-> bout'.id] >>
                             ELSE << >>
       /\ bout'.op = "clear" =>
            bout'.events = << [type |-> "blocks:cleared", id |-> ""] >>]_vars

\* One parse has fired all three kinds of block notification.
C40_Witness ==
  /\ rev # "BlockParser" /\ bout.op = "parse"
  /\ \A type \in {"block:added", "block:updated", "block:removed"} :
       EventsOf(bout.events, type) # {}

====
